---- MODULE Spec2Model ----
(***************************************************************************)
(* Multi-process metric aggregation (prometheus_client, multiprocess mode). *)
(*                                                                         *)
(* Three specifications over one set of variables:                         *)
(*   SpecStore  the mmap-backed store of mmap_dict.py, byte by byte;        *)
(*   SpecMerge  the pure function merge() of multiprocess.py;              *)
(*   Spec       workers, the archiver (cleanup_dead_processes) and         *)
(*              scrapers (MultiProcessCollector.collect) on one directory, *)
(*              serialised by the advisory lock.                           *)
(*                                                                         *)
(* Doubles are modelled by integers.  Python's None is NoneTs (-1): in      *)
(* Python 2, None orders below every number.  +Inf is InfTs.               *)
(***************************************************************************)
EXTENDS Integers, Sequences, FiniteSets, TLC

\* ------------------------------------------------------------------ bounds
MaxDoublings == 2      \* how often a store file may double
MaxValue == 2          \* values written are 1..MaxValue
MaxOps == 2            \* write_value / read_value_timestamp calls made
MaxInc == 1            \* increments one worker makes

\* -------------------------------------------------------- program constants
\* _INITIAL_MMAP_SIZE (1 << 20 in the source), scaled down to 16 bytes so
\* that growth, and repeated growth, happen within the bounds.
INITIAL_MMAP_SIZE == 16
\* struct 'dd': two 8-byte doubles
VALUE_TIMESTAMP_SIZE == 16

NoneTs == -1           \* Python None (timestamp absent)
InfTs == 255           \* float('inf')
MaxCapacity == INITIAL_MMAP_SIZE * (2 ^ MaxDoublings)

\* Keys are unicode strings: sequences of code points.  233 (e-acute) takes
\* two bytes in UTF-8, so character count and byte count differ.
StoreKeys == { <<97>>, <<233>>, <<97, 98, 99, 100>> }
Values == 1..MaxValue
\* timestamps a caller may pass to write_value
Timestamps == {NoneTs, 0, InfTs}

\* --------------------------------------------------------------- variables
VARIABLES
  \* the store file and its single writer (MmapedDict)
  fileExists,   \* the file is in the directory
  fileSize,     \* st_size
  fileData,     \* the bytes of the file (shared mapping), offset -> byte
  wpc,          \* where the writer is
  capacity,     \* self._capacity
  used,         \* self._used
  positions,    \* self._positions: key -> offset of its value
  pending,      \* the operation in progress: [op, key, value, timestamp]
  chunks,       \* pieces of the record already copied by _init_value
  lastRead,     \* result of the last read_value_timestamp
  rpc,          \* a reader (read-only open + read_all_values): "idle"/"done"
  readResult,   \* what the reader got
  \* history
  written,      \* key -> the last (value, timestamp) passed to write_value
  appended,     \* keys in the order their records were completed
  readAlloc,    \* keys whose record was allocated by read_value_timestamp
  corrupted,    \* a key_len field was overwritten: [at, len] or none
  rewrote,      \* some write_value found its key already in the file
  nops,         \* calls made so far
  \* one call of merge
  mfiles,       \* the files argument, each file with what opening it finds
  mcalled,      \* merge has been called
  maccumulate,  \* the accumulate argument
  mresult,      \* what merge returned
  morigin,      \* the files as the workers wrote them, before any was archived
  \* the directory, its workers, the archiver and the scrapers
  dir,          \* file name -> [st, recs]
  wst,          \* worker (pid) -> "new", "created", "running", "dead"
  exHeld,       \* holders of the exclusive lock on lockfile
  shHeld,       \* holders of the shared lock
  apc,          \* where the archiver (cleanup_dead_processes) is
  ablocking,    \* its blocking argument
  pidsToClean,  \* pids_to_clean
  livePaths,    \* live_metrics_paths
  apid,         \* the pid cleanup_process is working on (0: none)
  aworker,      \* its worker_paths
  amerged,      \* the metrics merged last
  aresult,      \* how the last run ended
  cache,        \* _metrics_cache.metrics
  spc,          \* scraper -> where its collect() is
  sblocking,    \* scraper -> its blocking argument
  sfiles,       \* scraper -> the globbed files still to read
  sloaded,      \* scraper -> the files read so far
  sresult,      \* scraper -> the c_total it reported, or how it failed
  \* history
  totalInc,     \* increments made by all workers so far
  sstart,       \* scraper -> totalInc when it took the lock
  sfloor,       \* scraper -> the value its previous scrape reported, when
                \* it scrapes again
  hpc,          \* the lock a direct user of advisory_lock is inside of
  deadAtWalk,   \* the pids the walk of the archive run under way found dead
  \* mmap_key
  kargs,        \* the arguments of two calls of mmap_key
  kkeys,        \* the keys they returned
  \* a root given to the archiver
  rdir          \* a second directory, file name -> [st, recs]

storeVars == <<fileExists, fileSize, fileData, wpc, capacity, used, positions,
               pending, chunks, lastRead, rpc, readResult, written, appended,
               readAlloc, corrupted, rewrote, nops>>

mergeVars == <<mfiles, mcalled, maccumulate, mresult, morigin>>

sysVars == <<dir, wst, exHeld, shHeld, apc, ablocking, pidsToClean, livePaths,
             apid, aworker, amerged, aresult, cache, spc, sblocking, sfiles,
             sloaded, sresult, totalInc, sstart, sfloor, hpc, deadAtWalk>>

keyVars == <<kargs, kkeys>>

otherVars == <<keyVars, rdir>>

notStore == <<mergeVars, sysVars, otherVars>>

vars == <<storeVars, mergeVars, sysVars, otherVars>>

\* ------------------------------------------------------------------ mmap_key
\* the label names there are, in the order sort_keys puts them
LabelNames == <<"a", "b">>

\* the bug "the labels are written in the order they are given"
MmapKey_Unsorted(metric_name, name, labelnames, labelvalues) ==
  LET n == IF Len(labelnames) < Len(labelvalues) THEN Len(labelnames)
           ELSE Len(labelvalues)
      RECURSIVE items(_)
      items(i) ==
        IF i > n THEN <<>>
        ELSE (IF \E j \in (i + 1)..n : labelnames[j] = labelnames[i] THEN <<>>
              ELSE <<labelnames[i], labelvalues[i]>>) \o items(i + 1)
  IN <<metric_name, name>> \o items(1)

\* mmap_key: the labels become a dict, a later value replacing an earlier one
\* of the same name and names without a value dropped, and json.dumps writes
\* metric name, sample name and the dict's items in the order of their keys
MmapKey(metric_name, name, labelnames, labelvalues) ==
  LET n == IF Len(labelnames) < Len(labelvalues) THEN Len(labelnames)
           ELSE Len(labelvalues)
      labels == [l \in {labelnames[i] : i \in 1..n} |->
                   labelvalues[CHOOSE i \in 1..n :
                                 /\ labelnames[i] = l
                                 /\ \A j \in 1..n : labelnames[j] = l => j <= i]]
      RECURSIVE items(_)
      items(i) ==
        IF i > Len(LabelNames) THEN <<>>
        ELSE (IF LabelNames[i] \in DOMAIN labels
                THEN <<LabelNames[i], labels[LabelNames[i]]>>
                ELSE <<>>) \o items(i + 1)
  IN <<metric_name, name>> \o items(1)

\* json.loads(key) in merge (line 128): metric name, sample name and the
\* labels
JsonLoads(key) ==
  [metric |-> key[1], name |-> key[2],
   labels |-> {<<key[2 * i + 1], key[2 * i + 2]>> :
                 i \in 1..((Len(key) - 2) \div 2)}]

KeysIdle == kargs = <<>> /\ kkeys = <<>>

\* ------------------------------------------------------------ byte helpers
RECURSIVE Utf8Encode(_)
Utf8Encode(key) ==
  IF key = <<>> THEN <<>>
  ELSE LET c == Head(key) IN
       (IF c < 128 THEN <<c>> ELSE <<192 + (c \div 64), 128 + (c % 64)>>)
       \o Utf8Encode(Tail(key))

InvalidKey == <<-1>>

RECURSIVE Utf8Decode(_)
Utf8Decode(bytes) ==
  IF bytes = <<>> THEN <<>>
  ELSE LET b == Head(bytes) IN
    IF b < 128 THEN
      LET rest == Utf8Decode(Tail(bytes)) IN
      IF rest = InvalidKey THEN InvalidKey ELSE <<b>> \o rest
    ELSE IF b >= 194 /\ b < 224 /\ Len(bytes) >= 2
            /\ bytes[2] >= 128 /\ bytes[2] < 192 THEN
      LET rest == Utf8Decode(Tail(Tail(bytes))) IN
      IF rest = InvalidKey THEN InvalidKey
      ELSE <<(b - 192) * 64 + (bytes[2] - 128)>> \o rest
    ELSE InvalidKey

\* struct 'i': little-endian signed 32-bit integer (the values packed here
\* are never negative)
PackInteger(value) ==
  << value % 256, (value \div 256) % 256, (value \div 65536) % 256,
     (value \div 16777216) % 256 >>

\* the top byte carries the sign
UnpackInteger(data, pos) ==
  data[pos] + 256 * data[pos + 1] + 65536 * data[pos + 2]
  + 16777216 * (IF data[pos + 3] >= 128 THEN data[pos + 3] - 256
                ELSE data[pos + 3])

\* a double: the modelled number in the first byte, the other seven zero
PackDouble(x) == << x, 0, 0, 0, 0, 0, 0, 0 >>

Spaces(n) == [i \in 1..n |-> 32]

\* data with bytes written at pos
Store(data, pos, bytes) ==
  [i \in DOMAIN data |->
     IF i >= pos /\ i < pos + Len(bytes) THEN bytes[i - pos + 1] ELSE data[i]]

\* the bug "None is stored as 0.0"
ToTimestampFloat_Zero(timestamp) == IF timestamp = NoneTs THEN 0 ELSE timestamp

ToTimestampFloat(timestamp) == IF timestamp = NoneTs THEN InfTs ELSE timestamp

FromTimestampFloat(timestamp) == IF timestamp = InfTs THEN NoneTs ELSE timestamp

\* the record _init_value appends for key
InitRecord(key) ==
  LET encoded == Utf8Encode(key)
      padded == encoded \o Spaces(8 - ((Len(encoded) + 4) % 8))
  IN PackInteger(Len(encoded)) \o padded \o PackDouble(0) \o PackDouble(0)

\* the bug "no bounds check"
BeyondBounds_Off(encoded_len, pos, used_) == FALSE

\* the bounds check of _read_all_values
BeyondBounds(encoded_len, pos, used_) == encoded_len + pos > used_

\* _read_all_values over a mapping of cap bytes, from pos: the records yielded
\* before the generator ends ("ok") or raises
RECURSIVE ReadFrom(_, _, _, _)
ReadFrom(data, cap, used_, pos) ==
  IF ~(pos < used_) THEN [recs |-> <<>>, err |-> "ok"]
  ELSE IF pos + 4 > cap THEN [recs |-> <<>>, err |-> "struct.error"]
  ELSE
    LET encoded_len == UnpackInteger(data, pos) IN
    IF BeyondBounds(encoded_len, pos, used_)
      THEN [recs |-> <<>>, err |-> "RuntimeError"]
    ELSE IF encoded_len < 0 \/ pos + 4 + encoded_len > cap
      THEN [recs |-> <<>>, err |-> "struct.error"]
    ELSE
      LET kpos == pos + 4
          padded_len == encoded_len + (8 - ((encoded_len + 4) % 8))
          vpos == kpos + padded_len
      IN
      IF vpos + VALUE_TIMESTAMP_SIZE > cap
        THEN [recs |-> <<>>, err |-> "struct.error"]
      ELSE
        LET key == Utf8Decode([i \in 1..encoded_len |-> data[kpos + i - 1]]) IN
        IF key = InvalidKey THEN [recs |-> <<>>, err |-> "UnicodeDecodeError"]
        ELSE
          LET rest == ReadFrom(data, cap, used_, vpos + VALUE_TIMESTAMP_SIZE)
              rec == [key |-> key, value |-> data[vpos],
                      timestamp |-> FromTimestampFloat(data[vpos + 8]),
                      pos |-> vpos]
          IN [recs |-> <<rec>> \o rest.recs, err |-> rest.err]

ReadAllValuesOf(data, cap, used_) == ReadFrom(data, cap, used_, 8)

\* MmapedDict(f, read_mode=True) followed by read_all_values() and close():
\* what a reader of the file gets at this moment
ReadOnlyOpenAndRead ==
  IF ~fileExists THEN [recs |-> <<>>, err |-> "IOError"]      \* open() fails
  ELSE IF fileSize = 0 THEN [recs |-> <<>>, err |-> "IOError"] \* truncate on 'rb'
  ELSE
    LET u == UnpackInteger(fileData, 0) IN
    IF u = 0 THEN [recs |-> <<>>, err |-> "TypeError"]  \* write to ACCESS_READ map
    ELSE ReadAllValuesOf(fileData, fileSize, u)


\* ------------------------------------------------------- the store's writer
NoPending == [op |-> "none", key |-> <<>>, value |-> 0, timestamp |-> NoneTs]
NoRead == [valid |-> FALSE, key |-> <<>>, value |-> 0, timestamp |-> NoneTs]
NoResult == [recs |-> <<>>, err |-> "none"]
NotCorrupted == [set |-> FALSE, at |-> 0, len |-> 0]
Unwritten == [set |-> FALSE, value |-> 0, timestamp |-> NoneTs]
ZeroData == [i \in 0..(MaxCapacity - 1) |-> 0]

StoreInit ==
  /\ fileExists = FALSE /\ fileSize = 0 /\ fileData = ZeroData
  /\ wpc = "closed" /\ capacity = 0 /\ used = 0 /\ positions = <<>>
  /\ pending = NoPending /\ chunks = {} /\ lastRead = NoRead
  /\ rpc = "idle" /\ readResult = NoResult
  /\ written = [k \in StoreKeys |-> Unwritten]
  /\ appended = <<>> /\ readAlloc = {} /\ corrupted = NotCorrupted
  /\ rewrote = FALSE /\ nops = 0

history == <<written, appended, readAlloc, corrupted, rewrote, nops>>

\* MmapedDict.__init__, line 36: open(filename, 'a+b') creates a missing file
OpenCreate ==
  /\ wpc = "closed" /\ rpc = "idle"
  /\ wpc' = "opened"
  /\ fileExists' = TRUE
  /\ UNCHANGED <<fileSize, fileData, capacity, used, positions, pending, chunks,
                 lastRead, rpc, readResult, history>>
  /\ UNCHANGED notStore

\* lines 38-42: an empty file is truncated to the initial size, then mapped
OpenTruncate ==
  /\ wpc = "opened" /\ rpc = "idle"
  /\ fileSize' = IF fileSize = 0 THEN INITIAL_MMAP_SIZE ELSE fileSize
  /\ capacity' = fileSize'
  /\ wpc' = "mapped"
  /\ UNCHANGED <<fileExists, fileData, used, positions, pending, chunks,
                 lastRead, rpc, readResult, history>>
  /\ UNCHANGED notStore

\* the bug "the records of a file that is opened again are not indexed"
PositionsOf_Empty(recs) == <<>>

\* positions built by the scan of line 51-52 (a later record of a key wins)
PositionsOf(recs) ==
  [k \in {recs[i].key : i \in 1..Len(recs)} |->
     LET last == CHOOSE i \in 1..Len(recs) :
                   /\ recs[i].key = k
                   /\ \A j \in (i + 1)..Len(recs) : recs[j].key # k
     IN recs[last].pos]

\* lines 44-52: read used; 0 means a fresh file; otherwise index the records
OpenHeader ==
  /\ wpc = "mapped" /\ rpc = "idle"
  /\ LET u == UnpackInteger(fileData, 0) IN
     IF u = 0 THEN
       /\ used' = 8
       /\ fileData' = Store(fileData, 0, PackInteger(8))
       /\ positions' = <<>>
       /\ wpc' = "ready"
       /\ UNCHANGED capacity
     ELSE
       LET r == ReadAllValuesOf(fileData, capacity, u) IN
       IF r.err = "ok" THEN
         /\ used' = u
         /\ positions' = PositionsOf(r.recs)
         /\ wpc' = "ready"
         /\ UNCHANGED <<fileData, capacity>>
       ELSE  \* the constructor raises
         /\ wpc' = "closed" /\ used' = 0 /\ capacity' = 0 /\ positions' = <<>>
         /\ UNCHANGED fileData
  /\ UNCHANGED <<fileExists, fileSize, pending, chunks, lastRead, rpc,
                 readResult, history>>
  /\ UNCHANGED notStore

\* the capacity _init_value's loop (lines 60-63) ends with
RECURSIVE GrownCapacity(_, _)
GrownCapacity(cap, need) ==
  IF need > cap THEN GrownCapacity(2 * cap, need) ELSE cap

\* write_value / read_value_timestamp, lines 102 and 113: a known key goes
\* straight to its value, a new key through _init_value
StartOp(op, key, value, timestamp) ==
  /\ wpc = "ready" /\ rpc = "idle"
  /\ nops < MaxOps
  /\ nops' = nops + 1
  /\ rewrote' = (rewrote \/ (op = "write" /\ key \in DOMAIN positions))
  /\ pending' = [op |-> op, key |-> key, value |-> value, timestamp |-> timestamp]
  /\ lastRead' = NoRead
  /\ chunks' = {}
  /\ IF key \in DOMAIN positions
       THEN /\ wpc' = IF op = "write" THEN "pack" ELSE "unpack"
            /\ UNCHANGED readAlloc
       ELSE /\ GrownCapacity(capacity, used + Len(InitRecord(key))) <= MaxCapacity
            /\ wpc' = "init"
            /\ readAlloc' = IF op = "read" THEN readAlloc \cup {key} ELSE readAlloc
  /\ UNCHANGED <<fileExists, fileSize, fileData, capacity, used, positions, rpc,
                 readResult, written, appended, corrupted>>
  /\ UNCHANGED notStore

WriteValue == \E k \in StoreKeys, v \in Values, t \in Timestamps :
  StartOp("write", k, v, t)

ReadValueTimestamp == \E k \in StoreKeys : StartOp("read", k, 0, NoneTs)

\* the bug "the record is copied without looking at the capacity"
Fits_Always == TRUE

\* line 60: the record fits behind used
Fits == used + Len(InitRecord(pending.key)) <= capacity

\* _init_value, lines 60-63: one doubling of the file, and a new mapping
InitGrow ==
  /\ wpc = "init" /\ rpc = "idle"
  /\ ~Fits
  /\ capacity' = capacity * 2
  /\ fileSize' = capacity'
  /\ UNCHANGED <<fileExists, fileData, wpc, used, positions, pending, chunks,
                 lastRead, rpc, readResult, history>>
  /\ UNCHANGED notStore

\* line 64: the slice assignment copies the record; the copy is not atomic:
\* here it lands in two pieces (the key part, the value pair), in any order
ChunkStart(c) ==
  IF c = 1 THEN 0 ELSE Len(InitRecord(pending.key)) - VALUE_TIMESTAMP_SIZE

ChunkEnd(c) ==
  IF c = 1 THEN Len(InitRecord(pending.key)) - VALUE_TIMESTAMP_SIZE
  ELSE Len(InitRecord(pending.key))

InitCopy == \E c \in {1, 2} :
  /\ wpc = "init" /\ rpc = "idle"
  /\ Fits
  /\ c \notin chunks
  /\ chunks' = chunks \cup {c}
  /\ fileData' = Store(fileData, used + ChunkStart(c),
                       SubSeq(InitRecord(pending.key), ChunkStart(c) + 1,
                              ChunkEnd(c)))
  /\ UNCHANGED <<fileExists, fileSize, wpc, capacity, used, positions, pending,
                 lastRead, rpc, readResult, history>>
  /\ UNCHANGED notStore

\* the bug "used is bumped without waiting for the record"
InitUsed_Early ==
  /\ wpc = "init" /\ rpc = "idle"
  /\ Fits
  /\ used' = used + Len(InitRecord(pending.key))
  /\ fileData' = Store(fileData, 0, PackInteger(used'))
  /\ positions' = [k \in DOMAIN positions \cup {pending.key} |->
                     IF k = pending.key THEN used' - VALUE_TIMESTAMP_SIZE
                     ELSE positions[k]]
  /\ appended' = Append(appended, pending.key)
  /\ wpc' = IF pending.op = "write" THEN "pack" ELSE "unpack"
  /\ UNCHANGED <<fileExists, fileSize, capacity, pending, chunks, lastRead, rpc,
                 readResult, written, readAlloc, corrupted, rewrote, nops>>
  /\ UNCHANGED notStore

\* lines 66-69: after the record is copied, used is bumped in the header and
\* the key is indexed
InitUsed ==
  /\ wpc = "init" /\ rpc = "idle"
  /\ Fits
  /\ chunks = {1, 2}
  /\ used' = used + Len(InitRecord(pending.key))
  /\ fileData' = Store(fileData, 0, PackInteger(used'))
  /\ positions' = [k \in DOMAIN positions \cup {pending.key} |->
                     IF k = pending.key THEN used' - VALUE_TIMESTAMP_SIZE
                     ELSE positions[k]]
  /\ appended' = Append(appended, pending.key)
  /\ wpc' = IF pending.op = "write" THEN "pack" ELSE "unpack"
  /\ UNCHANGED <<fileExists, fileSize, capacity, pending, chunks, lastRead, rpc,
                 readResult, written, readAlloc, corrupted, rewrote, nops>>
  /\ UNCHANGED notStore

\* write_value, lines 115-117: the 16-byte pair is stored in one assignment
PackValue ==
  /\ wpc = "pack" /\ rpc = "idle"
  /\ fileData' = Store(fileData, positions[pending.key],
                       PackDouble(pending.value)
                       \o PackDouble(ToTimestampFloat(pending.timestamp)))
  /\ written' = [written EXCEPT ![pending.key] =
                   [set |-> TRUE, value |-> pending.value,
                    timestamp |-> pending.timestamp]]
  /\ wpc' = "ready"
  /\ pending' = NoPending
  /\ chunks' = {}
  /\ UNCHANGED <<fileExists, fileSize, capacity, used, positions, lastRead, rpc,
                 readResult, appended, readAlloc, corrupted, rewrote, nops>>
  /\ UNCHANGED notStore

\* read_value_timestamp, lines 104-107
UnpackValue ==
  /\ wpc = "unpack" /\ rpc = "idle"
  /\ lastRead' = [valid |-> TRUE, key |-> pending.key,
                  value |-> fileData[positions[pending.key]],
                  timestamp |->
                    FromTimestampFloat(fileData[positions[pending.key] + 8])]
  /\ wpc' = "ready"
  /\ pending' = NoPending
  /\ chunks' = {}
  /\ UNCHANGED <<fileExists, fileSize, fileData, capacity, used, positions, rpc,
                 readResult, history>>
  /\ UNCHANGED notStore

\* close(), lines 119-124
Close ==
  /\ wpc = "ready" /\ rpc = "idle"
  /\ wpc' = "closed"
  /\ capacity' = 0 /\ used' = 0 /\ positions' = <<>>
  /\ lastRead' = NoRead
  /\ UNCHANGED <<fileExists, fileSize, fileData, pending, chunks, rpc,
                 readResult, history>>
  /\ UNCHANGED notStore

\* ------------------------------------------------------- the store's reader
\* A reader in another process opens the file read-only and reads it all, at
\* any point of the writer's progress.  The read is one step; the writer
\* goes on once the reader has its result.
ReadAll ==
  /\ rpc = "idle"
  /\ fileExists
  /\ readResult' = ReadOnlyOpenAndRead
  /\ rpc' = "done"
  /\ UNCHANGED <<fileExists, fileSize, fileData, wpc, capacity, used, positions,
                 pending, chunks, lastRead, history>>
  /\ UNCHANGED notStore

ReadReturn ==
  /\ rpc = "done"
  /\ rpc' = "idle"
  /\ readResult' = NoResult
  /\ UNCHANGED <<fileExists, fileSize, fileData, wpc, capacity, used, positions,
                 pending, chunks, lastRead, history>>
  /\ UNCHANGED notStore

\* ------------------------------------------------------------- corruption
\* offset where the i-th appended record starts
RECURSIVE RecStart(_, _)
RecStart(keys, i) ==
  IF i <= 1 THEN 8 ELSE RecStart(keys, i - 1) + Len(InitRecord(keys[i - 1]))

\* key_len values a corruption leaves behind
CorruptLens == {2, 120}

\* something overwrites the key_len field of one record (the test's
\* d._m[8:16] = b'somejunk')
Corrupt == \E i \in 1..Len(appended), l \in CorruptLens :
  /\ rpc = "idle"
  /\ wpc = "closed"
  /\ ~corrupted.set
  /\ corrupted' = [set |-> TRUE, at |-> i, len |-> l]
  /\ fileData' = Store(fileData, RecStart(appended, i), PackInteger(l))
  /\ UNCHANGED <<fileExists, fileSize, wpc, capacity, used, positions, pending,
                 chunks, lastRead, rpc, readResult, written, appended, readAlloc,
                 rewrote, nops>>
  /\ UNCHANGED notStore

StoreNext ==
  \/ OpenCreate \/ OpenTruncate \/ OpenHeader
  \/ WriteValue \/ ReadValueTimestamp
  \/ InitGrow \/ InitCopy \/ InitUsed
  \/ PackValue \/ UnpackValue \/ Close
  \/ ReadAll \/ ReadReturn
  \/ Corrupt



\* =========================================================================
\* merge (multiprocess.py)
\* =========================================================================
\* A file as merge meets it: [name, st, recs].
\*   name  [typ, mode, pid]: <typ>_<pid>.db, gauge_<mode>_<pid>.db, or the
\*         archive names without pid (pid 0); mode is "none" outside gauges
\*   st    "absent" (no such file), "created" (size 0), "truncated" (header
\*         still 0) or "ok"
\*   recs  the (key, value, timestamp) records read_all_values yields,
\*         key = [metric, name, labels], labels a set of <<name, value>>
\* line 99
FileMode(name) == IF name.typ = "gauge" THEN name.mode ELSE "none"

\* the bug "every file with a pid part gives a pid label"
FilePid_Always(name) == name.pid

\* line 100: only gauge files give a pid
FilePid(name) == IF FileMode(name) # "none" /\ name.pid # 0 THEN name.pid ELSE 0

\* what MmapedDict(f, read_mode=True) does with the file (lines 36-48 of
\* mmap_dict.py): open or truncate fails with an IOError, the header write on
\* a read-only map with a TypeError
OpenError(f) ==
  CASE f.st \in {"absent", "created"} -> "IOError"
    [] f.st = "truncated" -> "TypeError"
    [] OTHER -> "ok"

\* the bug "a missing gauge file of any mode is passed over"
Tolerated_AnyGauge(name) == name.typ = "gauge"

\* line 123: the missing files merge passes over
Tolerated(name) == name.typ = "gauge" /\ name.mode \in {"livesum", "liveall"}

\* the bug "no pid label is added"
AddPid_None(labels, pid) == labels

\* lines 129-130
AddPid(labels, pid) ==
  IF pid = 0 THEN labels
  ELSE {l \in labels : l[1] # "pid"} \cup {<<"pid", ToString(pid)>>}

\* lines 127-139: the samples added for one file, each with the file's type
\* and mode
RawOf(f) ==
  [i \in 1..Len(f.recs) |->
     [metric |-> f.recs[i].key.metric, typ |-> f.name.typ,
      mode |-> FileMode(f.name), name |-> f.recs[i].key.name,
      labels |-> AddPid(f.recs[i].key.labels, FilePid(f.name)),
      value |-> f.recs[i].value, timestamp |-> f.recs[i].timestamp]]

\* lines 96-140: the files are read in order; an error other than a tolerated
\* missing file ends the merge
RECURSIVE ReadFiles(_)
ReadFiles(files) ==
  IF files = <<>> THEN [err |-> "ok", raw |-> <<>>]
  ELSE
    LET f == Head(files)
        e == OpenError(f)
    IN IF e = "IOError" /\ Tolerated(f.name) THEN ReadFiles(Tail(files))
       ELSE IF e # "ok" THEN [err |-> e, raw |-> <<>>]
       ELSE LET rest == ReadFiles(Tail(files))
            IN [err |-> rest.err, raw |-> RawOf(f) \o rest.raw]

Indexes(raw, m) == {i \in 1..Len(raw) : raw[i].metric = m}

\* line 135: the type of the file that first mentions the metric
MetricType(raw, m) ==
  raw[CHOOSE i \in Indexes(raw, m) : \A j \in Indexes(raw, m) : i <= j].typ

\* line 138: the mode of the last gauge file that mentions the metric
MetricMode(raw, m) ==
  LET g == {i \in Indexes(raw, m) : raw[i].mode # "none"} IN
  IF g = {} THEN "none"
  ELSE raw[CHOOSE i \in g : \A j \in g : j <= i].mode

\* the bug "the label is not removed"
WithoutLabel_Keep(labels, n) == labels

WithoutLabel(labels, n) == {l \in labels : l[1] # n}

\* the bug "= instead of +=": the value read last stays
SumIdx_Overwrite(raw, idxs) ==
  IF idxs = {} THEN 0
  ELSE raw[CHOOSE i \in idxs : \A j \in idxs : j <= i].value

RECURSIVE SumIdx(_, _)
SumIdx(raw, idxs) ==
  IF idxs = {} THEN 0
  ELSE LET i == CHOOSE i \in idxs : TRUE
       IN raw[i].value + SumIdx(raw, idxs \ {i})

\* the bug "the value read first stays"
MinIdx_First(raw, idxs) ==
  raw[CHOOSE i \in idxs : \A j \in idxs : i <= j].value

MinIdx(raw, idxs) ==
  raw[CHOOSE i \in idxs : \A j \in idxs : raw[i].value <= raw[j].value].value

MaxIdx(raw, idxs) ==
  raw[CHOOSE i \in idxs : \A j \in idxs : raw[i].value >= raw[j].value].value

Sample(name, labels, value, timestamp) ==
  [name |-> name, labels |-> labels, value |-> value, timestamp |-> timestamp]

\* the bug "the sample read last stays"
LatestSamples_LastRead(raw, idxs) ==
  LET grp(i) == <<raw[i].name, WithoutLabel(raw[i].labels, "pid")>>
      pick(g) == CHOOSE i \in idxs :
                   grp(i) = g /\ \A j \in idxs : grp(j) = g => j <= i
  IN {Sample(g[1], g[2], raw[pick(g)].value, raw[pick(g)].timestamp) :
        g \in {grp(i) : i \in idxs}}

\* lines 144-160: gauge mode latest: per (name, labels without pid), the
\* first sample of the largest timestamp (max() keeps the first maximum;
\* None orders below every number)
LatestSamples(raw, idxs) ==
  LET grp(i) == <<raw[i].name, WithoutLabel(raw[i].labels, "pid")>>
      groups == {grp(i) : i \in idxs}
      pick(g) == CHOOSE i \in idxs :
                   /\ grp(i) = g
                   /\ \A j \in idxs : grp(j) = g =>
                        \/ raw[j].timestamp < raw[i].timestamp
                        \/ raw[j].timestamp = raw[i].timestamp /\ i <= j
  IN {Sample(g[1], g[2], raw[pick(g)].value, raw[pick(g)].timestamp) :
        g \in groups}

\* the canonical bucket bounds, ascending; a bound's float is its rank here
BucketBounds == <<"1.0", "5.0", "+Inf">>

\* the bug "the bounds are ordered as strings"
FloatOf_AsString(s) == CHOOSE i \in 1..3 : <<"+Inf", "1.0", "5.0">>[i] = s

\* float(l[1]), line 182
FloatOf(s) == CHOOSE i \in 1..Len(BucketBounds) : BucketBounds[i] = s

\* floatToGoString, line 204
FloatToGoString(x) == BucketBounds[x]

IsBucket(labels) == \E l \in labels : l[1] = "le"

\* line 182: bucket[0], the float of the le label
BucketOf(labels) == FloatOf((CHOOSE l \in labels : l[1] = "le")[2])

\* lines 162-214: every other metric
PlainSamples(raw, idxs, m, typ, mode, accumulate) ==
  LET gauge == typ = "gauge"
      hist == typ = "histogram"
      \* the key a sample is filed under in `samples`
      keyOf(i) ==
        IF gauge /\ mode \in {"min", "max", "livesum"}
          THEN <<raw[i].name, WithoutLabel(raw[i].labels, "pid")>>
          ELSE <<raw[i].name, raw[i].labels>>
      plain == IF hist THEN {i \in idxs : ~IsBucket(raw[i].labels)} ELSE idxs
      bucket == IF hist THEN {i \in idxs : IsBucket(raw[i].labels)} ELSE {}
      group(k) == {i \in plain : keyOf(i) = k}
      valueOf(k) ==
        IF gauge /\ mode = "min" THEN MinIdx(raw, group(k))
        ELSE IF gauge /\ mode = "max" THEN MaxIdx(raw, group(k))
        ELSE IF gauge /\ mode = "livesum" THEN SumIdx(raw, group(k))
        ELSE IF gauge
          THEN raw[CHOOSE i \in group(k) : \A j \in group(k) : j <= i].value
        ELSE SumIdx(raw, group(k))
      \* lines 181-188: buckets[without_le][bound] += value
      bgroups == {WithoutLabel(raw[i].labels, "le") : i \in bucket}
      bounds(g) == {BucketOf(raw[i].labels) :
                      i \in {j \in bucket : WithoutLabel(raw[j].labels, "le") = g}}
      bsum(g, b) == SumIdx(raw, {i \in bucket :
                                   /\ WithoutLabel(raw[i].labels, "le") = g
                                   /\ BucketOf(raw[i].labels) = b})
      acc(g, b) == SumIdx(raw, {i \in bucket :
                                  /\ WithoutLabel(raw[i].labels, "le") = g
                                  /\ BucketOf(raw[i].labels) <= b})
      \* lines 198-212
      bucketSamples ==
        UNION {{Sample(m \o "_bucket", g \cup {<<"le", FloatToGoString(b)>>},
                       IF accumulate THEN acc(g, b) ELSE bsum(g, b), NoneTs) :
                  b \in bounds(g)} : g \in bgroups}
      countSamples ==
        IF accumulate
          THEN {Sample(m \o "_count", g,
                       acc(g, CHOOSE b \in bounds(g) : \A c \in bounds(g) : c <= b),
                       NoneTs) : g \in bgroups}
          ELSE {}
      overwritten == {<<x.name, x.labels>> : x \in bucketSamples \cup countSamples}
      keys == {keyOf(i) : i \in plain}
  IN {Sample(k[1], k[2], valueOf(k), NoneTs) : k \in keys \ overwritten}
     \cup bucketSamples \cup countSamples

\* lines 142-215
Aggregate(raw, m, accumulate) ==
  LET typ == MetricType(raw, m)
      mode == MetricMode(raw, m)
  IN [typ |-> typ, mode |-> mode,
      samples |-> IF typ = "gauge" /\ mode = "latest"
                    THEN LatestSamples(raw, Indexes(raw, m))
                    ELSE PlainSamples(raw, Indexes(raw, m), m, typ, mode,
                                      accumulate)]

\* merge(files, accumulate): err "ok" and the metrics by name, or the error
Merge(files, accumulate) ==
  LET r == ReadFiles(files)
      names == {r.raw[i].metric : i \in 1..Len(r.raw)}
  IN IF r.err # "ok" THEN [err |-> r.err, metrics |-> <<>>]
     ELSE [err |-> "ok",
           metrics |-> [m \in names |-> Aggregate(r.raw, m, accumulate)]]

\* ----------------------------------------------------------- calling merge
NoMetrics == [err |-> "none", metrics |-> <<>>]

MergeIdle ==
  /\ mfiles = <<>> /\ mcalled = FALSE /\ maccumulate = TRUE
  /\ mresult = NoMetrics /\ morigin = <<>>

FileName(typ, mode, pid) == [typ |-> typ, mode |-> mode, pid |-> pid]

MetricKey(metric, name, labels) ==
  [metric |-> metric, name |-> name, labels |-> labels]

\* the keys of a counter c in the files: c_total without labels and with a=x
CounterKeys == << MetricKey("c", "c_total", {}),
                  MetricKey("c", "c_total", {<<"a", "x">>}) >>

\* a counter file holding, for each key, the value chosen for it (-1: the
\* key is not in the file); counters carry no timestamp
CounterFile(name, choice) ==
  [name |-> name, st |-> "ok",
   recs |-> LET present == {i \in 1..Len(CounterKeys) : choice[i] >= 0}
                RECURSIVE build(_)
                build(i) ==
                  IF i > Len(CounterKeys) THEN <<>>
                  ELSE (IF i \in present
                          THEN <<[key |-> CounterKeys[i], value |-> choice[i],
                                  timestamp |-> NoneTs]>>
                          ELSE <<>>) \o build(i + 1)
            IN build(1)]

CounterChoices == [1..Len(CounterKeys) -> (-1)..MaxValue]

\* the counter files a directory may hold: two workers' and the archive
CounterNames == << FileName("counter", "none", 1), FileName("counter", "none", 2),
                   FileName("counter", "none", 0) >>

\* a gauge of mode all written by pid 1, and a liveall file that was unlinked
\* after the directory was listed
GaugeAllFile ==
  [name |-> FileName("gauge", "all", 1), st |-> "ok",
   recs |-> <<[key |-> MetricKey("g", "g", {}), value |-> 1,
               timestamp |-> NoneTs]>>]

MissingLiveallFile ==
  [name |-> FileName("gauge", "liveall", 2), st |-> "absent", recs |-> <<>>]

Reverse(q) == [i \in 1..Len(q) |-> q[Len(q) + 1 - i]]

\* the file lists merge is called with
MergeInputs ==
  LET opt(f) == {<<>>, <<f>>}
      counter(i) == {<<>>} \cup {<<CounterFile(CounterNames[i], c)>> :
                                   c \in CounterChoices}
      lists == {g \o c1 \o l \o c2 \o c0 :
                  g \in opt(GaugeAllFile), l \in opt(MissingLiveallFile),
                  c1 \in counter(1), c2 \in counter(2), c0 \in counter(3)}
  IN lists \cup {Reverse(q) : q \in lists}

MergeInit ==
  /\ mfiles \in MergeInputs
  /\ mcalled = FALSE /\ maccumulate = TRUE /\ mresult = NoMetrics
  /\ morigin = mfiles

\* merge(files, accumulate), lines 86-215
MergeCall == \E accumulate \in BOOLEAN :
  /\ ~mcalled
  /\ mcalled' = TRUE
  /\ maccumulate' = accumulate
  /\ mresult' = Merge(mfiles, accumulate)
  /\ UNCHANGED <<mfiles, morigin, storeVars, sysVars, otherVars>>

\* =========================================================================
\* The directory: workers, cleanup_dead_processes and the collectors
\* =========================================================================
\* the worker processes, by pid, and the processes that scrape
Workers == {1, 2}

Scrapers == {1}

\* the values stored under a key in the records of a file
RECURSIVE SumRecs(_, _)
SumRecs(recs, key) ==
  IF recs = <<>> THEN 0
  ELSE (IF Head(recs).key = key THEN Head(recs).value ELSE 0)
       + SumRecs(Tail(recs), key)

\* the files of the directory, in the order it is listed
DirNames == << FileName("counter", "none", 1), FileName("counter", "none", 2),
               FileName("counter", "none", 0) >>

NoFile == [st |-> "absent", recs |-> <<>>]

\* the file of that name as an open finds it
DirFile(d, name) ==
  IF name \in DOMAIN d
    THEN [name |-> name, st |-> d[name].st, recs |-> d[name].recs]
    ELSE [name |-> name, st |-> "absent", recs |-> <<>>]

\* os.path.exists
Exists(d, name) == DirFile(d, name).st # "absent"

RECURSIVE Existing(_, _)
Existing(d, names) ==
  IF names = <<>> THEN <<>>
  ELSE (IF Exists(d, Head(names)) THEN <<Head(names)>> ELSE <<>>)
       \o Existing(d, Tail(names))

FilesOf(d, names) == [i \in 1..Len(names) |-> DirFile(d, names[i])]

\* _safe_remove of each name
Unlinked(d, names) ==
  [n \in DOMAIN d |-> IF n \in names THEN NoFile ELSE d[n]]

\* the key a counter metric c without labels is stored under
TotalKey == MetricKey("c", "c_total", {})

\* Counter.inc() in a worker: write_value(key, read_value(key) + 1)
Incremented(recs) ==
  IF \E i \in 1..Len(recs) : recs[i].key = TotalKey
    THEN [i \in 1..Len(recs) |->
            IF recs[i].key = TotalKey
              THEN [recs[i] EXCEPT !.value = @ + 1, !.timestamp = NoneTs]
              ELSE recs[i]]
    ELSE Append(recs, [key |-> TotalKey, value |-> 1, timestamp |-> NoneTs])

\* the value a file stores under the key (0 when it has none)
StoredValue(f) == IF f.st = "ok" THEN SumRecs(f.recs, TotalKey) ELSE 0

\* os.kill(pid, 0) succeeds
IsAlive(w, pid) == pid \in Workers /\ w[pid] \in {"created", "truncated", "running"}

\* the value of c_total in merged metrics (0 when the metric is not there)
RECURSIVE SumSamples(_)
SumSamples(xs) ==
  IF xs = {} THEN 0
  ELSE LET x == CHOOSE x \in xs : TRUE IN x.value + SumSamples(xs \ {x})

CounterValue(metrics) ==
  IF "c" \in DOMAIN metrics
    THEN SumSamples({x \in metrics["c"].samples :
                       x.name = "c_total" /\ x.labels = {}})
    ELSE 0

\* ----------------------------------------------------------- advisory_lock
\* the bug "the exclusive lock does not wait for the shared locks"
Conflict_IgnoreShared(lock_type, ex, sh, who) == ex \ {who} # {}

\* the bug "the shared lock waits for the shared locks of others"
Conflict_SharedExcludes(lock_type, ex, sh, who) == (ex \cup sh) \ {who} # {}

\* flock(fd, lock_type) has to wait, or fails when LOCK_NB is set
Conflict(lock_type, ex, sh, who) ==
  IF lock_type = "LOCK_EX" THEN (ex \cup sh) \ {who} # {}
  ELSE ex \ {who} # {}

\* the holders after the with block was left, normally or by an exception
Unlocked_Leak(held, who, raised) == IF raised THEN held ELSE held \ {who}

\* the bug "the lock is never given back"
Unlocked_Held(held, who, raised) == held

\* finally: flock(fd, LOCK_UN)
Unlocked(held, who, raised) == held \ {who}

\* ----------------------------------------------------------- _write_metrics
ArchiveNames ==
  << FileName("counter", "none", 0), FileName("gauge", "latest", 0),
     FileName("gauge", "max", 0), FileName("gauge", "min", 0),
     FileName("histogram", "none", 0) >>

\* the bug "only the counter file is cleaned up"
WorkerPaths_CounterOnly(pid) == << FileName("counter", "none", pid) >>

WorkerPaths(pid) ==
  << FileName("counter", "none", pid), FileName("gauge", "latest", pid),
     FileName("gauge", "max", pid), FileName("gauge", "min", pid),
     FileName("histogram", "none", pid) >>

\* the bug "only the liveall file is removed"
LivesumPaths_LiveallOnly(pid) == {FileName("gauge", "liveall", pid)}

LivesumPaths(pid) ==
  {FileName("gauge", "livesum", pid), FileName("gauge", "liveall", pid)}

RECURSIVE SetToSeq(_)
SetToSeq(S) ==
  IF S = {} THEN <<>>
  ELSE LET x == CHOOSE x \in S : TRUE IN <<x>> \o SetToSeq(S \ {x})

\* the metrics _write_metrics does not skip
Archived(metrics) ==
  {m \in DOMAIN metrics :
     \/ metrics[m].typ \in {"histogram", "counter"}
     \/ metrics[m].typ = "gauge" /\ metrics[m].mode \in {"min", "max", "latest"}}

\* the archive file a metric is written to
SinkName(metric) ==
  FileName(metric.typ, IF metric.typ = "gauge" THEN metric.mode ELSE "none", 0)

\* the records of the temporary file moved over the archive file of that name
SinkRecs(metrics, name) ==
  SetToSeq(UNION {
    {[key |-> MetricKey(m, x.name, x.labels), value |-> x.value,
      timestamp |-> FromTimestampFloat(ToTimestampFloat(x.timestamp))] :
       x \in metrics[m].samples} :
    m \in {n \in Archived(metrics) : SinkName(metrics[n]) = name}})

\* the directory after _write_metrics(metrics, merged_paths)
WriteMetrics(d, metrics) ==
  LET sinks == {SinkName(metrics[m]) : m \in Archived(metrics)}
  IN [n \in DOMAIN d |->
        IF n \in sinks THEN [st |-> "ok", recs |-> SinkRecs(metrics, n)]
        ELSE d[n]]

\* ------------------------------------------------------------------ state
Archiver == 0

NoScrape == [st |-> "none", value |-> 0]

\* no lock is held, the archiver and the scrapers are not running
ProcessesIdle ==
  /\ exHeld = {} /\ shHeld = {}
  /\ apc = "idle" /\ ablocking = TRUE /\ pidsToClean = {} /\ livePaths = <<>>
  /\ apid = 0 /\ aworker = <<>> /\ amerged = NoMetrics /\ aresult = "none"
  /\ cache = <<>>
  /\ spc = [s \in Scrapers |-> "idle"]
  /\ sblocking = [s \in Scrapers |-> TRUE]
  /\ sfiles = [s \in Scrapers |-> <<>>]
  /\ sloaded = [s \in Scrapers |-> <<>>]
  /\ sresult = [s \in Scrapers |-> NoScrape]
  /\ totalInc = 0
  /\ sstart = [s \in Scrapers |-> 0]
  /\ sfloor = [s \in Scrapers |-> 0]
  /\ hpc = "out"
  /\ deadAtWalk = {}

SysIdle ==
  /\ dir = [n \in {DirNames[i] : i \in 1..Len(DirNames)} |-> NoFile]
  /\ wst = [p \in Workers |-> "new"]
  /\ ProcessesIdle

lockVars == <<exHeld, shHeld>>

workerVars == <<wst, totalInc>>

archVars == <<apc, ablocking, pidsToClean, livePaths, apid, aworker, amerged,
              aresult, cache, deadAtWalk>>

scrVars == <<spc, sblocking, sfiles, sloaded, sresult, sstart, sfloor, hpc>>

notSys == <<storeVars, mergeVars, otherVars>>

\* ---------------------------------------------------------------- workers
WorkerFile(p) == FileName("counter", "none", p)

\* a worker's first metric opens its file: open(filename, 'a+b') creates it
WorkerStart(p) ==
  /\ wst[p] = "new"
  /\ wst' = [wst EXCEPT ![p] = "created"]
  /\ dir' = [dir EXCEPT ![WorkerFile(p)] = [st |-> "created", recs |-> <<>>]]
  /\ UNCHANGED <<totalInc, lockVars, archVars, scrVars, notSys>>

\* truncate(_INITIAL_MMAP_SIZE)
WorkerTruncate(p) ==
  /\ wst[p] = "created"
  /\ wst' = [wst EXCEPT ![p] = "truncated"]
  /\ dir' = [dir EXCEPT ![WorkerFile(p)].st = "truncated"]
  /\ UNCHANGED <<totalInc, lockVars, archVars, scrVars, notSys>>

\* the header is written: used = 8
WorkerHeader(p) ==
  /\ wst[p] = "truncated"
  /\ wst' = [wst EXCEPT ![p] = "running"]
  /\ dir' = [dir EXCEPT ![WorkerFile(p)].st = "ok"]
  /\ UNCHANGED <<totalInc, lockVars, archVars, scrVars, notSys>>

\* Counter.inc()
WorkerInc(p) ==
  /\ wst[p] = "running"
  /\ StoredValue(DirFile(dir, WorkerFile(p))) < MaxInc
  /\ dir' = [dir EXCEPT ![WorkerFile(p)].recs = Incremented(@)]
  /\ totalInc' = totalInc + 1
  /\ UNCHANGED <<wst, lockVars, archVars, scrVars, notSys>>

\* the process exits; mark_process_dead removes its livesum and liveall files
WorkerDie(p) ==
  /\ IsAlive(wst, p)
  /\ wst' = [wst EXCEPT ![p] = "dead"]
  /\ dir' = Unlinked(dir, LivesumPaths(p))
  /\ UNCHANGED <<totalInc, lockVars, archVars, scrVars, notSys>>

\* ----------------------------------------------- cleanup_dead_processes
ArchiverRests ==
  /\ apc' = "returned" /\ ablocking' = TRUE /\ pidsToClean' = {}
  /\ livePaths' = <<>> /\ apid' = 0 /\ aworker' = <<>> /\ amerged' = NoMetrics
  /\ deadAtWalk' = {}

\* the files of workers, as the pattern (\w+)_(\d+)\.db picks them
\* the bug "the worker files are left out"
WorkerNames_None(d) == <<>>

WorkerNames(d) ==
  SelectSeq(Existing(d, SetToSeq(DOMAIN d)), LAMBDA n : n.pid # 0)

\* lines 330-345: the walk, before the lock is taken
ArchWalk == \E blocking \in BOOLEAN :
  /\ apc = "idle"
  /\ apc' = "walked"
  /\ ablocking' = blocking
  /\ pidsToClean' = {WorkerNames(dir)[i].pid : i \in
                       {j \in 1..Len(WorkerNames(dir)) :
                          ~IsAlive(wst, WorkerNames(dir)[j].pid)}}
  /\ livePaths' = SelectSeq(WorkerNames(dir), LAMBDA n : IsAlive(wst, n.pid))
  /\ deadAtWalk' = {WorkerNames(dir)[i].pid : i \in
                      {j \in 1..Len(WorkerNames(dir)) :
                         ~IsAlive(wst, WorkerNames(dir)[j].pid)}}
  /\ UNCHANGED <<apid, aworker, amerged, aresult, cache>>
  /\ UNCHANGED <<dir, workerVars, lockVars, scrVars, notSys>>

\* lines 346-347: flock(fd, LOCK_EX) or flock(fd, LOCK_EX | LOCK_NB)
ArchLock ==
  /\ apc = "walked"
  /\ IF Conflict("LOCK_EX", exHeld, shHeld, Archiver)
       THEN /\ ~ablocking
            /\ ArchiverRests
            /\ aresult' = "LockBusy"
            /\ UNCHANGED exHeld
       ELSE /\ exHeld' = exHeld \cup {Archiver}
            /\ apc' = "locked"
            /\ UNCHANGED <<ablocking, pidsToClean, livePaths, apid, aworker,
                           amerged, aresult, deadAtWalk>>
  /\ UNCHANGED <<cache, shHeld, dir, workerVars, scrVars, notSys>>

\* the bug "the archives are left out of the merge"
AllPaths_WorkersOnly(d, worker_paths) == worker_paths

\* line 262
AllPaths(d, worker_paths) == worker_paths \o Existing(d, ArchiveNames)

\* the bug "the archives are written with running sums"
ArchiveAccumulate_On == TRUE

\* line 263: merge(all_paths, accumulate=False)
ArchiveAccumulate == FALSE

\* lines 348-350 and 252-263: cleanup_process(pid) up to the merge; an error
\* of the merge leaves the with block
ArchClean == \E pid \in pidsToClean :
  LET worker_paths == Existing(dir, WorkerPaths(pid))
      m == Merge(FilesOf(dir, AllPaths(dir, worker_paths)), ArchiveAccumulate)
  IN
  /\ apc = "locked"
  /\ IF worker_paths = <<>>
       THEN /\ apc' = "unlinking" /\ apid' = pid /\ aworker' = <<>>
            /\ UNCHANGED <<ablocking, pidsToClean, livePaths, amerged, aresult,
                           exHeld, deadAtWalk>>
       ELSE IF m.err # "ok"
         THEN /\ ArchiverRests
              /\ aresult' = m.err
              /\ exHeld' = Unlocked(exHeld, Archiver, TRUE)
         ELSE /\ apc' = "writing" /\ apid' = pid /\ aworker' = worker_paths
              /\ amerged' = m
              /\ UNCHANGED <<ablocking, pidsToClean, livePaths, aresult, exHeld,
                             deadAtWalk>>
  /\ UNCHANGED <<cache, shHeld, dir, workerVars, scrVars, notSys>>

\* line 264: _write_metrics(metrics, merged_paths)
ArchWrite ==
  /\ apc = "writing"
  /\ dir' = WriteMetrics(dir, amerged.metrics)
  /\ apc' = "unlinking"
  /\ amerged' = NoMetrics
  /\ UNCHANGED <<ablocking, pidsToClean, livePaths, apid, aworker, aresult,
                 cache>>
  /\ UNCHANGED <<workerVars, lockVars, scrVars, notSys>>
  /\ UNCHANGED deadAtWalk

\* lines 265-267: the worker's files are removed
ArchUnlink ==
  /\ apc = "unlinking"
  /\ dir' = Unlinked(dir, {aworker[i] : i \in 1..Len(aworker)}
                            \cup LivesumPaths(apid))
  /\ pidsToClean' = pidsToClean \ {apid}
  /\ apc' = "locked" /\ apid' = 0 /\ aworker' = <<>>
  /\ UNCHANGED <<ablocking, livePaths, amerged, aresult, cache>>
  /\ UNCHANGED <<workerVars, lockVars, scrVars, notSys>>
  /\ UNCHANGED deadAtWalk

\* the with block of line 347 is left
ArchRelease ==
  /\ apc = "locked" /\ pidsToClean = {}
  /\ exHeld' = Unlocked(exHeld, Archiver, FALSE)
  /\ apc' = "refresh"
  /\ UNCHANGED <<ablocking, pidsToClean, livePaths, apid, aworker, amerged,
                 aresult, cache>>
  /\ UNCHANGED <<shHeld, dir, workerVars, scrVars, notSys>>
  /\ UNCHANGED deadAtWalk

\* lines 353-354: the merge of the archives and the live files
ArchRefresh ==
  LET m == Merge(FilesOf(dir, Existing(dir, ArchiveNames) \o livePaths), TRUE)
  IN
  /\ apc = "refresh"
  /\ IF m.err # "ok"
       THEN ArchiverRests /\ aresult' = m.err
       ELSE /\ apc' = "cache" /\ amerged' = m
            /\ UNCHANGED <<ablocking, pidsToClean, livePaths, apid, aworker,
                           aresult, deadAtWalk>>
  /\ UNCHANGED <<cache, lockVars, dir, workerVars, scrVars, notSys>>

\* the bug "write_metrics keeps the old snapshot"
WriteCache_Dropped(old, metrics) == old

\* MetricsCache.write_metrics: self.metrics = metrics
WriteCache(old, metrics) == metrics

\* MetricsCache.retrieve_metrics, which InMemoryCollector.collect returns
RetrieveMetrics(c) == c

\* line 357: _metrics_cache.write_metrics(metrics, time_elapsed)
ArchCache ==
  /\ apc = "cache"
  /\ cache' = WriteCache(cache, amerged.metrics)
  /\ ArchiverRests
  /\ aresult' = "ok"
  /\ UNCHANGED <<lockVars, dir, workerVars, scrVars, notSys>>

\* ----------------------------------------- MultiProcessCollector.collect
ScraperRests(s) ==
  /\ sblocking' = [sblocking EXCEPT ![s] = TRUE]
  /\ sfiles' = [sfiles EXCEPT ![s] = <<>>]
  /\ sloaded' = [sloaded EXCEPT ![s] = <<>>]


\* collect(blocking) is called, the first time or again after a scrape
ScrCall(s) == \E blocking \in BOOLEAN :
  /\ spc[s] \in {"idle", "returned"}
  /\ spc' = [spc EXCEPT ![s] = "calling"]
  /\ sblocking' = [sblocking EXCEPT ![s] = blocking]
  /\ sfloor' = [sfloor EXCEPT ![s] = sresult[s].value]
  /\ sresult' = [sresult EXCEPT ![s] = NoScrape]
  /\ sstart' = [sstart EXCEPT ![s] = 0]
  /\ UNCHANGED <<sfiles, sloaded, hpc>>
  /\ UNCHANGED <<dir, workerVars, lockVars, archVars, notSys>>

\* lines 80-81: flock(fd, LOCK_SH) or flock(fd, LOCK_SH | LOCK_NB)
ScrLock(s) ==
  /\ spc[s] = "calling"
  /\ IF Conflict("LOCK_SH", exHeld, shHeld, s)
       THEN /\ ~sblocking[s]
            /\ spc' = [spc EXCEPT ![s] = "returned"]
            /\ sresult' = [sresult EXCEPT ![s] = [st |-> "LockBusy", value |-> 0]]
            /\ UNCHANGED <<shHeld, sblocking, sstart>>
       ELSE /\ shHeld' = shHeld \cup {s}
            /\ spc' = [spc EXCEPT ![s] = "locked"]
            /\ sstart' = [sstart EXCEPT ![s] = totalInc]
            /\ UNCHANGED <<sblocking, sresult>>
  /\ UNCHANGED <<sfiles, sloaded, sfloor, hpc>>
  /\ UNCHANGED <<exHeld, dir, workerVars, archVars, notSys>>

\* line 82: glob('*.db')
ScrGlob(s) ==
  /\ spc[s] = "locked"
  /\ spc' = [spc EXCEPT ![s] = "reading"]
  /\ sfiles' = [sfiles EXCEPT ![s] = Existing(dir, DirNames)]
  /\ sblocking' = [sblocking EXCEPT ![s] = TRUE]
  /\ UNCHANGED <<sloaded, sresult, sstart, sfloor, hpc>>
  /\ UNCHANGED <<dir, workerVars, lockVars, archVars, notSys>>

\* lines 96-140 of merge: the next file is opened and read; an error that is
\* not tolerated leaves the with block
ScrRead(s) ==
  /\ spc[s] = "reading" /\ sfiles[s] # <<>>
  /\ LET f == DirFile(dir, Head(sfiles[s]))
         e == OpenError(f)
     IN IF e = "IOError" /\ Tolerated(f.name)
          THEN /\ sfiles' = [sfiles EXCEPT ![s] = Tail(@)]
               /\ UNCHANGED <<spc, sblocking, sloaded, sresult, shHeld>>
        ELSE IF e # "ok"
          THEN /\ spc' = [spc EXCEPT ![s] = "returned"]
               /\ sresult' = [sresult EXCEPT ![s] = [st |-> e, value |-> 0]]
               /\ shHeld' = Unlocked(shHeld, s, TRUE)
               /\ ScraperRests(s)
          ELSE /\ sfiles' = [sfiles EXCEPT ![s] = Tail(@)]
               /\ sloaded' = [sloaded EXCEPT ![s] = Append(@, f)]
               /\ UNCHANGED <<spc, sblocking, sresult, shHeld>>
  /\ UNCHANGED <<sstart, sfloor, hpc>>
  /\ UNCHANGED <<exHeld, dir, workerVars, archVars, notSys>>

\* lines 142-215 of merge and the end of the with block
ScrMerge(s) ==
  LET m == Merge(sloaded[s], TRUE)
      v == CounterValue(m.metrics)
  IN
  /\ spc[s] = "reading" /\ sfiles[s] = <<>>
  /\ spc' = [spc EXCEPT ![s] = "returned"]
  /\ sresult' = [sresult EXCEPT ![s] = [st |-> "ok", value |-> v]]
  /\ shHeld' = Unlocked(shHeld, s, FALSE)
  /\ ScraperRests(s)
  /\ UNCHANGED <<sstart, sfloor, hpc>>
  /\ UNCHANGED <<exHeld, dir, workerVars, archVars, notSys>>

\* the caller has the result
ScrReturn(s) ==
  /\ spc[s] = "returned"
  /\ spc' = [spc EXCEPT ![s] = "idle"]
  /\ sresult' = [sresult EXCEPT ![s] = NoScrape]
  /\ sstart' = [sstart EXCEPT ![s] = 0]
  /\ sfloor' = [sfloor EXCEPT ![s] = 0]
  /\ ScraperRests(s)
  /\ UNCHANGED hpc
  /\ UNCHANGED <<dir, workerVars, lockVars, archVars, notSys>>

\* the caller has the outcome
ArchReturn ==
  /\ apc = "returned"
  /\ apc' = "idle"
  /\ aresult' = "none"
  /\ UNCHANGED deadAtWalk
  /\ UNCHANGED <<ablocking, pidsToClean, livePaths, apid, aworker, amerged,
                 cache>>
  /\ UNCHANGED <<lockVars, dir, workerVars, scrVars, notSys>>

\* ------------------------------------------- advisory_lock, used directly
Holder == 2

\* with advisory_lock(lock_type): the block is entered once flock returns
HolderEnter == \E lock_type \in {"LOCK_SH", "LOCK_EX"} :
  /\ hpc = "out"
  /\ ~Conflict(lock_type, exHeld, shHeld, Holder)
  /\ hpc' = lock_type
  /\ exHeld' = IF lock_type = "LOCK_EX" THEN exHeld \cup {Holder} ELSE exHeld
  /\ shHeld' = IF lock_type = "LOCK_SH" THEN shHeld \cup {Holder} ELSE shHeld
  /\ UNCHANGED <<spc, sblocking, sfiles, sloaded, sresult, sstart, sfloor>>
  /\ UNCHANGED <<dir, workerVars, archVars, notSys>>

\* the block is left, normally or by an exception of its body
HolderLeave == \E raised \in BOOLEAN :
  /\ hpc # "out"
  /\ hpc' = "out"
  /\ exHeld' = IF hpc = "LOCK_EX" THEN Unlocked(exHeld, Holder, raised)
                ELSE exHeld
  /\ shHeld' = IF hpc = "LOCK_SH" THEN Unlocked(shHeld, Holder, raised)
                ELSE shHeld
  /\ UNCHANGED <<spc, sblocking, sfiles, sloaded, sresult, sstart, sfloor>>
  /\ UNCHANGED <<dir, workerVars, archVars, notSys>>

Worker == \E p \in Workers :
  \/ WorkerStart(p) \/ WorkerTruncate(p) \/ WorkerHeader(p)
  \/ WorkerInc(p) \/ WorkerDie(p)

Scraper == \E s \in Scrapers :
  \/ ScrCall(s) \/ ScrLock(s) \/ ScrGlob(s) \/ ScrRead(s) \/ ScrMerge(s)
  \/ ScrReturn(s)

Next ==
  \/ Worker
  \/ ArchWalk \/ ArchLock \/ ArchClean \/ ArchWrite \/ ArchUnlink
  \/ ArchRelease \/ ArchRefresh \/ ArchCache \/ ArchReturn
  \/ Scraper
  \/ HolderEnter \/ HolderLeave

\* the directory is empty, no process has started; the store and merge of
\* the other specifications are not used
Init == SysIdle /\ StoreInit /\ KeysIdle /\ rdir = <<>> /\ MergeIdle

Spec == Init /\ [][Next]_vars

\* Scheduling: a process that is inside a with block goes on until it has
\* left it (the archiver's section, a scrape, a direct holder); a blocking
\* flock(fd, LOCK_SH) that waits is granted once the lock is free, also if
\* the lock is taken again and again by others (the kernel wakes the
\* waiters of a lock that is released).  Nothing makes a caller call.
Fairness ==
  /\ \A s \in Scrapers :
       /\ SF_vars(ScrLock(s))
       /\ WF_vars(ScrGlob(s)) /\ WF_vars(ScrRead(s)) /\ WF_vars(ScrMerge(s))
  /\ WF_vars(ArchClean) /\ WF_vars(ArchWrite) /\ WF_vars(ArchUnlink)
  /\ WF_vars(ArchRelease)
  /\ WF_vars(HolderLeave)

\* the processes around the lock, with one worker that opens its file and
\* dies at any point of that
NextLive ==
  \/ WorkerStart(1) \/ WorkerTruncate(1) \/ WorkerHeader(1) \/ WorkerDie(1)
  \/ ArchWalk \/ ArchLock \/ ArchClean \/ ArchWrite \/ ArchUnlink
  \/ ArchRelease \/ ArchRefresh \/ ArchCache \/ ArchReturn
  \/ Scraper
  \/ HolderEnter \/ HolderLeave

SpecLive == Init /\ [][NextLive]_vars /\ Fairness

\* merge is called once on a list of files
InitMerge == MergeInit /\ StoreInit /\ KeysIdle /\ rdir = <<>> /\ SysIdle

SpecMerge == InitMerge /\ [][MergeCall]_vars

\* ------------------------------------------------- merge of histogram files
\* the records a histogram child writes: its buckets, not accumulated, and
\* its sum; choice gives the values, in the order of BucketBounds and then
\* the sum
HistogramRecs(labels, choice) ==
  [i \in 1..Len(BucketBounds) |->
     [key |-> MetricKey("h", "h_bucket", labels \cup {<<"le", BucketBounds[i]>>}),
      value |-> choice[i], timestamp |-> NoneTs]]
  \o <<[key |-> MetricKey("h", "h_sum", labels),
        value |-> choice[Len(BucketBounds) + 1], timestamp |-> NoneTs]>>

HistogramChoices ==
  {c \in [1..(Len(BucketBounds) + 1) -> 0..MaxValue] :
     c[Len(BucketBounds) + 1] \in {0, MaxValue}}

\* the label sets of the children of h
HistogramLabels == { {}, {<<"a", "x">>} }

\* a worker's histogram file, then another worker's or the archive file
HistogramInputs ==
  {<<[name |-> FileName("histogram", "none", 1), st |-> "ok",
      recs |-> HistogramRecs({}, c1)],
     [name |-> FileName("histogram", "none", pid), st |-> "ok",
      recs |-> HistogramRecs(l, c2)]>> :
     c1 \in HistogramChoices, c2 \in HistogramChoices,
     l \in HistogramLabels, pid \in {0, 2}}

InitHistogram ==
  /\ mfiles \in HistogramInputs
  /\ mcalled = FALSE /\ maccumulate = TRUE /\ mresult = NoMetrics
  /\ morigin = mfiles
  /\ StoreInit /\ KeysIdle /\ rdir = <<>> /\ SysIdle

SpecHistogram == InitHistogram /\ [][MergeCall]_vars

\* ----------------------------------------------------- merge of gauge files
\* the keys of a gauge g in the files: g without labels and with a=x
GaugeKeys == << MetricKey("g", "g", {}), MetricKey("g", "g", {<<"a", "x">>}) >>

\* the records of a gauge file holding, for each key, the value chosen for it
\* (-1: the key is not in the file) with the timestamp chosen for it
GaugeRecs(choice, stamp) ==
  LET RECURSIVE build(_)
      build(i) ==
        IF i > Len(GaugeKeys) THEN <<>>
        ELSE (IF choice[i] >= 0
                THEN <<[key |-> GaugeKeys[i], value |-> choice[i],
                        timestamp |-> stamp[i]]>>
                ELSE <<>>) \o build(i + 1)
  IN build(1)

GaugeChoices == [1..Len(GaugeKeys) -> (-1)..MaxValue]

NoStamps == [i \in 1..Len(GaugeKeys) |-> NoneTs]

\* the modes whose files cleanup_process archives
ArchivedModes == {"min", "max", "latest"}

\* the files of one mode other than latest: two workers' and a third file,
\* the archive file where the mode has one and a third worker's otherwise
GaugeInputs ==
  {<<[name |-> FileName("gauge", mode, 1), st |-> "ok",
      recs |-> GaugeRecs(c1, NoStamps)],
     [name |-> FileName("gauge", mode, 2), st |-> "ok",
      recs |-> GaugeRecs(c2, NoStamps)],
     [name |-> FileName("gauge", mode, IF mode \in ArchivedModes THEN 0 ELSE 3),
      st |-> "ok", recs |-> GaugeRecs(c3, NoStamps)]>> :
     mode \in {"min", "max", "all", "liveall", "livesum"},
     c1 \in GaugeChoices, c2 \in GaugeChoices, c3 \in GaugeChoices}

InitGauge ==
  /\ mfiles \in GaugeInputs
  /\ mcalled = FALSE /\ maccumulate = TRUE /\ mresult = NoMetrics
  /\ morigin = mfiles
  /\ StoreInit /\ KeysIdle /\ rdir = <<>> /\ SysIdle

SpecGauge == InitGauge /\ [][MergeCall]_vars

\* ------------------------------------- merge of gauge files of mode latest
\* the timestamps set() is called with: none, or a time
LatestStamps == {NoneTs, 1, 2}

\* the gauge_latest file of a worker: g without labels, set to a value with a
\* timestamp or not there, and for pid 1 possibly g with a=x as well
LatestFiles(pid) ==
  {[name |-> FileName("gauge", "latest", pid), st |-> "ok",
    recs |-> GaugeRecs(<<c, d>>, <<t, 1>>)] :
     c \in (-1)..MaxValue, t \in LatestStamps,
     d \in IF pid = 1 THEN {-1, 1} ELSE {-1}}

\* two workers' files, in either order
LatestInputs ==
  UNION {{<<f1, f2>>, <<f2, f1>>} : f1 \in LatestFiles(1), f2 \in LatestFiles(2)}

InitLatest ==
  /\ mfiles \in LatestInputs
  /\ mcalled = FALSE /\ maccumulate = TRUE /\ mresult = NoMetrics
  /\ morigin = mfiles
  /\ StoreInit /\ KeysIdle /\ rdir = <<>> /\ SysIdle

\* cleanup_process(pid) on the files: the worker's file and the archive file
\* are merged without accumulation into a new archive file, which the
\* directory lists at some place, and the worker's file is removed
LatestArchive == \E pid \in {1, 2}, front \in BOOLEAN :
  LET mine == SelectSeq(mfiles, LAMBDA f : f.name.pid = pid)
      archives == SelectSeq(mfiles, LAMBDA f : f.name.pid = 0)
      others == SelectSeq(mfiles, LAMBDA f : f.name.pid \notin {0, pid})
      m == Merge(mine \o archives, FALSE)
      sinks == {SinkName(m.metrics[n]) : n \in Archived(m.metrics)}
      renamed ==
        [i \in 1..Cardinality(sinks) |->
           [name |-> SetToSeq(sinks)[i], st |-> "ok",
            recs |-> SinkRecs(m.metrics, SetToSeq(sinks)[i])]]
      kept == SelectSeq(archives, LAMBDA f : f.name \notin sinks)
  IN /\ ~mcalled
     /\ mine # <<>>
     /\ mfiles' = IF front THEN renamed \o kept \o others
                  ELSE others \o kept \o renamed
     /\ UNCHANGED <<mcalled, maccumulate, mresult, morigin, storeVars, sysVars,
                    otherVars>>

NextLatest == LatestArchive \/ MergeCall

SpecLatest == InitLatest /\ [][NextLatest]_vars

\* ------------------------------------------- merge of files that are gone
\* the kinds of files: type and mode
FileKinds ==
  {<<"counter", "none">>, <<"histogram", "none">>, <<"summary", "none">>}
    \cup {<<"gauge", mode>> :
            mode \in {"all", "liveall", "livesum", "min", "max", "latest"}}

\* a file of that kind and pid holding one sample of a metric of its own, or
\* removed after the directory was listed
KindFile(kind, pid, st) ==
  [name |-> FileName(kind[1], kind[2], pid), st |-> st,
   recs |-> IF st = "ok"
              THEN <<[key |-> MetricKey(kind[1] \o "_" \o kind[2],
                                        kind[1] \o "_" \o kind[2], {}),
                      value |-> 1, timestamp |-> NoneTs]>>
              ELSE <<>>]

\* the files of two workers, each there or gone when merge opens it
MissingInputs ==
  {<<KindFile(k1, 1, s1), KindFile(k2, 2, s2)>> :
     k1 \in FileKinds, k2 \in FileKinds,
     s1 \in {"ok", "absent"}, s2 \in {"ok", "absent"}}

InitMissing ==
  /\ mfiles \in MissingInputs
  /\ mcalled = FALSE /\ maccumulate = TRUE /\ mresult = NoMetrics
  /\ morigin = mfiles
  /\ StoreInit /\ KeysIdle /\ rdir = <<>> /\ SysIdle

SpecMissing == InitMissing /\ [][MergeCall]_vars

\* --------------------------------------------------------- mark_process_dead
\* the files of a worker that sets gauges of the modes all, liveall and
\* livesum and a counter
DeadKinds == << <<"gauge", "all">>, <<"gauge", "liveall">>,
                <<"gauge", "livesum">>, <<"counter", "none">> >>

DeadNames ==
  [i \in 1..(2 * Len(DeadKinds)) |->
     FileName(DeadKinds[((i - 1) % Len(DeadKinds)) + 1][1],
              DeadKinds[((i - 1) % Len(DeadKinds)) + 1][2],
              ((i - 1) \div Len(DeadKinds)) + 1)]

\* the file of that name holding value under a metric of its kind, or no
\* file when value is 0
DeadFile(name, value) ==
  IF value = 0 THEN NoFile
  ELSE [st |-> "ok",
        recs |-> <<[key |-> MetricKey(name.typ \o "_" \o name.mode,
                                      name.typ \o "_" \o name.mode, {}),
                    value |-> value, timestamp |-> NoneTs]>>]

\* the directories: each worker has its counter and gauge_all file, and its
\* liveall and livesum files with some value or not at all
DeadDirs ==
  {[n \in {DeadNames[i] : i \in 1..Len(DeadNames)} |->
      IF n.mode \in {"liveall", "livesum"} THEN DeadFile(n, v[n.pid][n.mode])
      ELSE DeadFile(n, n.pid)] :
     v \in [Workers -> [{"liveall", "livesum"} -> 0..MaxValue]]}

InitDead ==
  /\ dir \in DeadDirs
  /\ wst = [p \in Workers |-> "running"]
  /\ ProcessesIdle /\ StoreInit /\ KeysIdle /\ rdir = <<>> /\ MergeIdle

\* mark_process_dead(pid, path), lines 218-226
MarkProcessDead(pid) ==
  /\ dir' = Unlinked(dir, LivesumPaths(pid))
  /\ wst' = [wst EXCEPT ![pid] = "dead"]
  /\ UNCHANGED <<totalInc, lockVars, archVars, scrVars, notSys>>

\* a scrape lists the directory (line 82)
DeadGlob ==
  /\ spc[1] = "idle"
  /\ spc' = [spc EXCEPT ![1] = "reading"]
  /\ sfiles' = [sfiles EXCEPT ![1] = Existing(dir, DeadNames)]
  /\ UNCHANGED <<sblocking, sloaded, sresult, sstart, sfloor, hpc>>
  /\ UNCHANGED <<dir, workerVars, lockVars, archVars, notSys>>

\* and merges the files it listed (line 83)
DeadMerge ==
  /\ spc[1] = "reading"
  /\ spc' = [spc EXCEPT ![1] = "idle"]
  /\ sfiles' = [sfiles EXCEPT ![1] = <<>>]
  /\ mfiles' = FilesOf(dir, sfiles[1])
  /\ mcalled' = TRUE
  /\ mresult' = Merge(FilesOf(dir, sfiles[1]), TRUE)
  /\ UNCHANGED <<maccumulate, morigin, storeVars, otherVars>>
  /\ UNCHANGED <<sblocking, sloaded, sresult, sstart, sfloor, hpc>>
  /\ UNCHANGED <<dir, workerVars, lockVars, archVars>>

NextDead == (\E pid \in Workers : MarkProcessDead(pid)) \/ DeadGlob \/ DeadMerge

SpecDead == InitDead /\ [][NextDead]_vars

\* ---------------------------------- cleanup_dead_processes on all file kinds
\* the kinds of worker files cleanup_process merges into the archives
AggregatedKinds == << <<"counter", "none">>, <<"gauge", "latest">>,
                      <<"gauge", "max">>, <<"gauge", "min">>,
                      <<"histogram", "none">> >>

\* the kinds that are never archived
LiveKinds == << <<"gauge", "liveall">>, <<"gauge", "livesum">>,
                <<"gauge", "all">> >>

KindNames(kinds, pid) ==
  {FileName(kinds[i][1], kinds[i][2], pid) : i \in 1..Len(kinds)}

ArchiveDirNames ==
  UNION {KindNames(AggregatedKinds, p) \cup KindNames(LiveKinds, p) :
           p \in Workers}
    \cup KindNames(AggregatedKinds, 0)

\* the records a worker's file of that name holds for value: a histogram with
\* value in each bucket and as its sum, a gauge of mode latest set at the
\* time pid, any other metric with one sample
KindRecs(name, value) ==
  IF name.typ = "histogram"
    THEN HistogramRecs({}, [i \in 1..(Len(BucketBounds) + 1) |-> value])
    ELSE <<[key |-> MetricKey(name.typ \o "_" \o name.mode,
                              name.typ \o "_" \o name.mode, {}),
            value |-> value,
            timestamp |-> IF name.mode = "latest" THEN name.pid ELSE NoneTs]>>

\* the directories: no archive yet; each worker has its three live gauge
\* files and at most one file of an aggregated kind
ArchiveDirs ==
  {[n \in ArchiveDirNames |->
      IF n.pid = 0 THEN NoFile
      ELSE IF n \in KindNames(LiveKinds, n.pid)
        THEN [st |-> "ok", recs |-> KindRecs(n, n.pid)]
      ELSE IF n = FileName(AggregatedKinds[k[n.pid]][1],
                           AggregatedKinds[k[n.pid]][2], n.pid)
              /\ v[n.pid] > 0
        THEN [st |-> "ok", recs |-> KindRecs(n, v[n.pid])]
      ELSE NoFile] :
     k \in [Workers -> 1..Len(AggregatedKinds)],
     v \in [Workers -> 0..MaxValue]}

\* some workers were killed before the archiver first runs
InitArchive ==
  /\ dir \in ArchiveDirs
  /\ wst \in [Workers -> {"running", "dead"}]
  /\ mfiles = <<>> /\ mcalled = FALSE /\ maccumulate = TRUE
  /\ mresult = NoMetrics
  /\ morigin = FilesOf(dir, SetToSeq(ArchiveDirNames))
  /\ ProcessesIdle /\ StoreInit /\ KeysIdle /\ rdir = <<>>

NextArchive ==
  \/ \E p \in Workers : WorkerDie(p)
  \/ ArchWalk \/ ArchLock \/ ArchClean \/ ArchWrite \/ ArchUnlink
  \/ ArchRelease \/ ArchRefresh \/ ArchCache \/ ArchReturn

SpecArchive == InitArchive /\ [][NextArchive]_vars

\* ---------------------------------------------- archive runs, aggregate only
\* ArchiveMetrics(aggregate_only=true) once it has the lock: no pid is
\* cleaned up; the archive files and the worker files in the directory are
\* merged, the result is written to the cache and the lock is released
AggregateOnly ==
  LET m == Merge(FilesOf(dir, Existing(dir, ArchiveNames) \o WorkerNames(dir)),
                 TRUE)
  IN
  /\ apc = "locked" /\ pidsToClean = deadAtWalk
  /\ cache' = IF m.err = "ok" THEN WriteCache(cache, m.metrics) ELSE cache
  /\ aresult' = m.err
  /\ exHeld' = Unlocked(exHeld, Archiver, m.err # "ok")
  /\ ArchiverRests
  /\ UNCHANGED <<shHeld, dir, workerVars, scrVars, notSys>>

NextAggregate == NextArchive \/ AggregateOnly

SpecAggregate == InitArchive /\ [][NextAggregate]_vars

\* ------------------------------- cleanup_dead_processes(root) with a root
\* rdir is the root given; dir is the directory prometheus_multiproc_dir
\* names, here with the files of worker 1 and its lockfile
InitRoot ==
  /\ rdir \in ArchiveDirs
  /\ dir = CHOOSE d \in ArchiveDirs :
             /\ d[FileName("counter", "none", 1)].st = "ok"
             /\ d[FileName("counter", "none", 1)].recs[1].value = 1
             /\ \A p \in Workers \ {1} :
                  \A n \in KindNames(AggregatedKinds, p) : d[n] = NoFile
  /\ wst \in [Workers -> {"running", "dead"}]
  /\ kargs = <<>> /\ kkeys = <<>>
  /\ ProcessesIdle /\ StoreInit /\ MergeIdle

\* lines 327-345: root is walked
RootWalk == \E blocking \in BOOLEAN :
  /\ apc = "idle"
  /\ apc' = "walked"
  /\ ablocking' = blocking
  /\ pidsToClean' = {WorkerNames(rdir)[i].pid : i \in
                       {j \in 1..Len(WorkerNames(rdir)) :
                          ~IsAlive(wst, WorkerNames(rdir)[j].pid)}}
  /\ livePaths' = SelectSeq(WorkerNames(rdir), LAMBDA n : IsAlive(wst, n.pid))
  /\ deadAtWalk' = {WorkerNames(rdir)[i].pid : i \in
                      {j \in 1..Len(WorkerNames(rdir)) :
                         ~IsAlive(wst, WorkerNames(rdir)[j].pid)}}
  /\ UNCHANGED <<apid, aworker, amerged, aresult, cache>>
  /\ UNCHANGED <<dir, workerVars, lockVars, scrVars, notSys>>

\* lines 353-354: the archives of root (_get_archive_paths(root)) and the
\* live files found in root are merged
RootRefresh ==
  LET m == Merge(FilesOf(rdir, Existing(rdir, ArchiveNames) \o livePaths), TRUE)
  IN
  /\ apc = "refresh"
  /\ IF m.err # "ok"
       THEN ArchiverRests /\ aresult' = m.err
       ELSE /\ apc' = "cache" /\ amerged' = m
            /\ UNCHANGED <<ablocking, pidsToClean, livePaths, apid, aworker,
                           aresult, deadAtWalk>>
  /\ UNCHANGED <<cache, lockVars, dir, workerVars, scrVars, notSys>>

\* advisory_lock(lock_type) at line 347 and cleanup_process(pid) at line 350
\* are called without root: they work in the directory of the environment
NextRoot ==
  \/ RootWalk \/ ArchLock \/ ArchClean \/ ArchWrite \/ ArchUnlink
  \/ ArchRelease \/ RootRefresh \/ ArchCache \/ ArchReturn

SpecRoot == InitRoot /\ [][NextRoot]_vars

\* ------------------------------------------------------------ keys of metrics
\* two calls, each with a metric name, a sample name and up to two distinct
\* label names in either order with their values
InitKey ==
  LET labelled == {<<ns, vs>> :
                     ns \in {<<>>, <<"a">>, <<"b">>, <<"a", "b">>, <<"b", "a">>},
                     vs \in UNION {[1..n -> {"x", "y"}] : n \in 0..2}}
      calls == {[metric_name |-> m, name |-> s, labelnames |-> l[1],
                 labelvalues |-> l[2]] :
                  m \in {"c", "d"}, s \in {"c", "c_total"},
                  l \in {x \in labelled : Len(x[1]) = Len(x[2])}}
  IN /\ kargs \in calls \X calls
     /\ kkeys = <<>> /\ rdir = <<>>
     /\ StoreInit /\ MergeIdle /\ SysIdle

MakeKeys ==
  /\ kkeys = <<>>
  /\ kkeys' = [i \in 1..2 |->
                 MmapKey(kargs[i].metric_name, kargs[i].name,
                         kargs[i].labelnames, kargs[i].labelvalues)]
  /\ UNCHANGED <<kargs, rdir, storeVars, mergeVars, sysVars>>

SpecKey == InitKey /\ [][MakeKeys]_vars

\* one store file, its writer and a reader
InitStore == StoreInit /\ KeysIdle /\ rdir = <<>> /\ MergeIdle /\ SysIdle

SpecStore == InitStore /\ [][StoreNext]_vars

\* the store's file after its writer opened it, wrote 1 under the key "a"
\* and closed it; ops is the number of calls counted so far
StoreWithRecord(ops) ==
  LET rec == InitRecord(<<97>>)
      end == 8 + Len(rec)
  IN
  /\ fileExists = TRUE
  /\ fileSize = GrownCapacity(INITIAL_MMAP_SIZE, end)
  /\ fileData = Store(Store(Store(ZeroData, 0, PackInteger(end)), 8, rec),
                      end - VALUE_TIMESTAMP_SIZE,
                      PackDouble(1) \o PackDouble(ToTimestampFloat(NoneTs)))
  /\ wpc = "closed" /\ capacity = 0 /\ used = 0 /\ positions = <<>>
  /\ pending = NoPending /\ chunks = {} /\ lastRead = NoRead
  /\ rpc = "idle" /\ readResult = NoResult
  /\ written = [k \in StoreKeys |->
                  IF k = <<97>>
                    THEN [set |-> TRUE, value |-> 1, timestamp |-> NoneTs]
                    ELSE Unwritten]
  /\ appended = << <<97>> >> /\ readAlloc = {} /\ corrupted = NotCorrupted
  /\ rewrote = FALSE /\ nops = ops

\* a store whose file holds one record already, its writer and a reader
InitAppend ==
  StoreWithRecord(0) /\ KeysIdle /\ rdir = <<>> /\ MergeIdle /\ SysIdle

SpecAppend == InitAppend /\ [][StoreNext]_vars

\* =========================================================================
\* Claims about the store
\* =========================================================================
HeaderUsed == UnpackInteger(fileData, 0)

\* what a reader got, without the offsets
ReadEntries ==
  {[key |-> readResult.recs[i].key, value |-> readResult.recs[i].value,
    timestamp |-> readResult.recs[i].timestamp] : i \in 1..Len(readResult.recs)}

ReadKeys == [i \in 1..Len(readResult.recs) |-> readResult.recs[i].key]

WrittenKeys == {k \in StoreKeys : written[k].set}

\* a reader has just read a file that was written by write_value calls only
\* and then closed
C7_Case ==
  /\ rpc = "done" /\ wpc = "closed"
  /\ ~corrupted.set /\ readAlloc = {}

\* C7 as stated: after write_value calls, close and a fresh open,
\* read_all_values yields one entry per key written, with the last value and
\* the last timestamp passed to write_value (None when none was passed).
C7_RoundTripAsStated ==
  C7_Case =>
    /\ readResult.err = "ok"
    /\ Len(readResult.recs) = Cardinality(WrittenKeys)
    /\ ReadEntries = {[key |-> k, value |-> written[k].value,
                       timestamp |-> written[k].timestamp] : k \in WrittenKeys}

\* C7 amended: the same, except that a timestamp of +Inf passed to write_value
\* reads back as None, since +Inf is the stored form of None.
C7_RoundTrip ==
  C7_Case =>
    /\ readResult.err = "ok"
    /\ Len(readResult.recs) = Cardinality(WrittenKeys)
    /\ ReadEntries =
         {[key |-> k, value |-> written[k].value,
           timestamp |-> IF written[k].timestamp = InfTs THEN NoneTs
                         ELSE written[k].timestamp] : k \in WrittenKeys}

C7_Witness ==
  /\ C7_Case
  /\ rewrote                     \* a key was written twice: the last write counts
  /\ \E k \in WrittenKeys : written[k].timestamp = 0 /\ written[k].value = 2
  /\ readResult.err = "ok" /\ Len(readResult.recs) = 1

\* C8: the record is written before used is bumped: whatever the writer is
\* doing (growing the file, copying a record, updating a value), a reader that
\* finds the header initialised reads exactly the records whose append was
\* completed, each with the initial pair or the pair last written.
C8_RecordBeforeUsed ==
  (rpc = "done" /\ ~corrupted.set /\ HeaderUsed >= 8) =>
    /\ readResult.err = "ok"
    /\ ReadKeys = appended
    /\ \A i \in 1..Len(readResult.recs) :
         LET r == readResult.recs[i] IN
         \/ r.value = 0 /\ r.timestamp = 0
         \/ /\ r.key \in WrittenKeys
            /\ r.value = written[r.key].value
            /\ r.timestamp = FromTimestampFloat(ToTimestampFloat(written[r.key].timestamp))

C8_Witness ==
  /\ rpc = "done" /\ ~corrupted.set
  /\ wpc = "init" /\ chunks = {2}
  /\ capacity > 2 * INITIAL_MMAP_SIZE
  /\ Len(appended) >= 1
  /\ readResult.err = "ok" /\ ReadKeys = appended

\* C9 as stated: read_value_timestamp on a key never written returns
\* (0.0, None), and a timestamp of 0.0 is returned only when 0.0 was written.
C9_FreshRecordHasNoTimestamp ==
  (lastRead.valid /\ ~corrupted.set) =>
    /\ ~written[lastRead.key].set =>
         (lastRead.value = 0 /\ lastRead.timestamp = NoneTs)
    /\ lastRead.timestamp = 0 =>
         (written[lastRead.key].set /\ written[lastRead.key].timestamp = 0)

\* C10: when the key_len of a record inside the used prefix was overwritten so
\* that key_len + record start > used, reading raises the corruption error
\* after yielding exactly the records before that one.
C10_CorruptionDetected ==
  (/\ rpc = "done" /\ corrupted.set
   /\ corrupted.len + RecStart(appended, corrupted.at) > HeaderUsed) =>
    /\ readResult.err = "RuntimeError"
    /\ ReadKeys = SubSeq(appended, 1, corrupted.at - 1)

C10_Witness ==
  /\ rpc = "done" /\ corrupted.set
  /\ corrupted.at >= 2
  /\ corrupted.len + RecStart(appended, corrupted.at) > HeaderUsed
  /\ readResult.err = "RuntimeError"
  /\ Len(readResult.recs) = corrupted.at - 1


\* =========================================================================
\* Claims about merge
\* =========================================================================
\* the sum of the values stored under key in the counter files of a list
RECURSIVE StoredSum(_, _)
StoredSum(files, key) ==
  IF files = <<>> THEN 0
  ELSE (IF Head(files).name.typ = "counter" /\ Head(files).st = "ok"
          THEN SumRecs(Head(files).recs, key) ELSE 0)
       + StoredSum(Tail(files), key)

\* the counter keys stored in some file of a list
StoredKeys(files) ==
  {k \in {CounterKeys[i] : i \in 1..Len(CounterKeys)} :
     \E j \in 1..Len(files) :
       /\ files[j].name.typ = "counter" /\ files[j].st = "ok"
       /\ \E n \in 1..Len(files[j].recs) : files[j].recs[n].key = k}

\* C1: merge with accumulate=true emits, for each (sample_name, labels) of a
\* counter stored in some file, one sample without pid label whose value is
\* the sum of the values stored under that key in all the files.
C1_CounterSum ==
  (mcalled /\ maccumulate /\ mresult.err = "ok") =>
    IF StoredKeys(mfiles) = {} THEN "c" \notin DOMAIN mresult.metrics
    ELSE /\ "c" \in DOMAIN mresult.metrics
         /\ mresult.metrics["c"].typ = "counter"
         /\ mresult.metrics["c"].samples =
              {Sample(k.name, k.labels, StoredSum(mfiles, k), NoneTs) :
                 k \in StoredKeys(mfiles)}

C1_Witness ==
  /\ mcalled /\ maccumulate /\ mresult.err = "ok"
  /\ Len(mfiles) = 5
  /\ \A j \in 1..Len(mfiles) :
       mfiles[j].name.typ = "counter" => Len(mfiles[j].recs) = 2
  /\ \E x \in mresult.metrics["c"].samples :
       x.labels = {<<"a", "x">>} /\ x.value = 3 * MaxValue
  /\ \E x \in mresult.metrics["g"].samples : <<"pid", "1">> \in x.labels

\* the sum of the values stored under key in the files of a list
RECURSIVE StoredTotal(_, _)
StoredTotal(files, key) ==
  IF files = <<>> THEN 0
  ELSE (IF Head(files).st = "ok" THEN SumRecs(Head(files).recs, key) ELSE 0)
       + StoredTotal(Tail(files), key)

\* the keys stored in some file of a list
AllStoredKeys(files) ==
  UNION {{files[j].recs[n].key : n \in 1..Len(files[j].recs)} :
           j \in {i \in 1..Len(files) : files[i].st = "ok"}}

\* the label groups of the buckets of h in the files
HistogramGroups(files) ==
  {WithoutLabel(k.labels, "le") :
     k \in {x \in AllStoredKeys(files) : x.name = "h_bucket"}}

BucketKey(g, i) == MetricKey("h", "h_bucket", g \cup {<<"le", BucketBounds[i]>>})

\* the sum across the files of the buckets of group g up to the i-th bound
RECURSIVE PrefixSum(_, _, _)
PrefixSum(files, g, i) ==
  IF i = 0 THEN 0
  ELSE StoredTotal(files, BucketKey(g, i)) + PrefixSum(files, g, i - 1)

SamplesNamed(metric, names) == {x \in metric.samples : x.name \in names}

\* C11: with accumulate=true the _bucket samples of h are, per label group
\* and bound, the sum across the files of the buckets up to that bound, and
\* the _count samples are, per label group, the value of the +Inf bucket.
C11_BucketsAccumulate ==
  (mcalled /\ maccumulate /\ mresult.err = "ok"
     /\ HistogramGroups(mfiles) # {}) =>
    /\ "h" \in DOMAIN mresult.metrics
    /\ mresult.metrics["h"].typ = "histogram"
    /\ SamplesNamed(mresult.metrics["h"], {"h_bucket"}) =
         {Sample("h_bucket", BucketKey(g, i).labels, PrefixSum(mfiles, g, i),
                 NoneTs) :
            g \in HistogramGroups(mfiles), i \in 1..Len(BucketBounds)}
    /\ SamplesNamed(mresult.metrics["h"], {"h_count"}) =
         {Sample("h_count", g, PrefixSum(mfiles, g, Len(BucketBounds)), NoneTs) :
            g \in HistogramGroups(mfiles)}
    /\ \A x, y \in SamplesNamed(mresult.metrics["h"], {"h_bucket"}) :
         (WithoutLabel(x.labels, "le") = WithoutLabel(y.labels, "le")
            /\ BucketOf(x.labels) <= BucketOf(y.labels)) => x.value <= y.value
    /\ \A x \in SamplesNamed(mresult.metrics["h"], {"h_count"}) :
         \E y \in SamplesNamed(mresult.metrics["h"], {"h_bucket"}) :
           /\ y.labels = x.labels \cup {<<"le", "+Inf">>}
           /\ y.value = x.value

C11_Witness ==
  /\ mcalled /\ maccumulate /\ mresult.err = "ok"
  /\ mfiles[2].name.pid = 0
  /\ \E x \in mresult.metrics["h"].samples :
       x.name = "h_bucket" /\ x.labels = {<<"le", "5.0">>}
         /\ x.value = 4 * MaxValue
  /\ \E x \in mresult.metrics["h"].samples :
       x.name = "h_count" /\ x.labels = {} /\ x.value = 5 * MaxValue

\* C12: with accumulate=false the samples of h are exactly, per stored key,
\* the sum across the files of the values stored under it: the buckets are
\* not accumulated and there is no _count.
C12_NoAccumulate ==
  (mcalled /\ ~maccumulate /\ mresult.err = "ok"
     /\ HistogramGroups(mfiles) # {}) =>
    /\ "h" \in DOMAIN mresult.metrics
    /\ mresult.metrics["h"].samples =
         {Sample(k.name, k.labels, StoredTotal(mfiles, k), NoneTs) :
            k \in {x \in AllStoredKeys(mfiles) : x.metric = "h"}}
    /\ SamplesNamed(mresult.metrics["h"], {"h_count"}) = {}

C12_Witness ==
  /\ mcalled /\ ~maccumulate /\ mresult.err = "ok"
  /\ \E x \in mresult.metrics["h"].samples :
       x.name = "h_bucket" /\ x.labels = {<<"le", "1.0">>}
         /\ x.value = 2 * MaxValue
  /\ \E x \in mresult.metrics["h"].samples :
       x.name = "h_bucket" /\ x.labels = {<<"le", "5.0">>} /\ x.value = 1
  /\ \E x \in mresult.metrics["h"].samples :
       x.name = "h_sum" /\ x.labels = {} /\ x.value = 2 * MaxValue

\* the values stored under key in the files of a list
StoredValues(files, key) ==
  UNION {{files[j].recs[n].value :
            n \in {i \in 1..Len(files[j].recs) : files[j].recs[i].key = key}} :
           j \in {i \in 1..Len(files) : files[i].st = "ok"}}

Least(S) == CHOOSE v \in S : \A w \in S : v <= w

Greatest(S) == CHOOSE v \in S : \A w \in S : w <= v

\* the mode of the gauge files merge was called with
CalledMode == mfiles[1].name.mode

MergedGauge == mcalled /\ mresult.err = "ok" /\ AllStoredKeys(mfiles) # {}

\* C13: for a gauge of mode min (max) merge emits, per stored key, one sample
\* without pid label whose value is the least (greatest) of the values stored
\* under the key in the files, the archive file among them.
C13_MinMax ==
  (MergedGauge /\ CalledMode \in {"min", "max"}) =>
    /\ "g" \in DOMAIN mresult.metrics
    /\ mresult.metrics["g"].typ = "gauge"
    /\ mresult.metrics["g"].samples =
         {Sample(k.name, k.labels,
                 IF CalledMode = "min" THEN Least(StoredValues(mfiles, k))
                 ELSE Greatest(StoredValues(mfiles, k)), NoneTs) :
            k \in AllStoredKeys(mfiles)}

C13_Witness ==
  /\ MergedGauge /\ CalledMode = "min"
  /\ mfiles[3].name.pid = 0
  /\ StoredValues(<<mfiles[1], mfiles[2]>>, GaugeKeys[1]) = {MaxValue}
  /\ StoredValues(<<mfiles[3]>>, GaugeKeys[1]) = {1}
  /\ Sample("g", {}, 1, NoneTs) \in mresult.metrics["g"].samples

\* the samples of the records of a file, each with the file's pid as label
PidSamples(f) ==
  {Sample(f.recs[n].key.name,
          f.recs[n].key.labels \cup {<<"pid", ToString(f.name.pid)>>},
          f.recs[n].value, NoneTs) : n \in 1..Len(f.recs)}

\* C15: for a gauge of mode all or liveall merge emits, per file and key
\* stored in it, one sample with the stored value and the file's pid as the
\* label pid, and no other sample.
C15_AllKeepsPid ==
  (MergedGauge /\ CalledMode \in {"all", "liveall"}) =>
    /\ "g" \in DOMAIN mresult.metrics
    /\ mresult.metrics["g"].samples =
         UNION {PidSamples(mfiles[j]) : j \in 1..Len(mfiles)}
    /\ Cardinality(mresult.metrics["g"].samples) =
         Len(mfiles[1].recs) + Len(mfiles[2].recs) + Len(mfiles[3].recs)

C15_Witness ==
  /\ MergedGauge /\ CalledMode = "liveall"
  /\ Cardinality(mresult.metrics["g"].samples) = 6
  /\ Sample("g", {<<"pid", "1">>}, 1, NoneTs) \in mresult.metrics["g"].samples
  /\ Sample("g", {<<"pid", "2">>}, MaxValue, NoneTs)
       \in mresult.metrics["g"].samples
  /\ Sample("g", {<<"a", "x">>, <<"pid", "3">>}, 1, NoneTs)
       \in mresult.metrics["g"].samples

\* C16: for a gauge of mode livesum merge emits, per stored key, one sample
\* without pid label whose value is the sum of the values stored under the
\* key in the files.
C16_Livesum ==
  (MergedGauge /\ CalledMode = "livesum") =>
    /\ "g" \in DOMAIN mresult.metrics
    /\ mresult.metrics["g"].samples =
         {Sample(k.name, k.labels, StoredTotal(mfiles, k), NoneTs) :
            k \in AllStoredKeys(mfiles)}

C16_Witness ==
  /\ MergedGauge /\ CalledMode = "livesum"
  /\ Sample("g", {}, 3 * MaxValue, NoneTs) \in mresult.metrics["g"].samples
  /\ Sample("g", {<<"a", "x">>}, 1, NoneTs) \in mresult.metrics["g"].samples

\* the records stored under key in the files of a list
StoredRecs(files, key) ==
  UNION {{files[j].recs[n] :
            n \in {i \in 1..Len(files[j].recs) : files[j].recs[i].key = key}} :
           j \in {i \in 1..Len(files) : files[i].st = "ok"}}

\* C14: for a gauge of mode latest merge emits, per key the workers stored,
\* one sample whose value and timestamp are those of a record the workers
\* stored under the key with the largest timestamp of all (none being below
\* every time), in whichever order the files are read and whether or not
\* workers' files were archived before.
C14_Latest ==
  (mcalled /\ mresult.err = "ok" /\ AllStoredKeys(morigin) # {}) =>
    /\ "g" \in DOMAIN mresult.metrics
    /\ Cardinality(mresult.metrics["g"].samples) =
         Cardinality(AllStoredKeys(morigin))
    /\ \A k \in AllStoredKeys(morigin) :
         \E x \in mresult.metrics["g"].samples :
           /\ x.name = k.name /\ x.labels = k.labels
           /\ \E r \in StoredRecs(morigin, k) :
                /\ r.value = x.value /\ r.timestamp = x.timestamp
                /\ \A q \in StoredRecs(morigin, k) : q.timestamp <= r.timestamp

C14_Witness ==
  /\ mcalled /\ mresult.err = "ok"
  /\ Len(mfiles) = 2 /\ mfiles[1].name.pid = 0 /\ mfiles[2].name.pid = 2
  /\ StoredRecs(morigin, GaugeKeys[1]) =
       {[key |-> GaugeKeys[1], value |-> MaxValue, timestamp |-> 2],
        [key |-> GaugeKeys[1], value |-> 1, timestamp |-> 1]}
  /\ mresult.metrics["g"].samples =
       {Sample("g", {}, MaxValue, 2), Sample("g", {<<"a", "x">>}, 1, 1)}

\* the files of the list that are gone and are not liveall or livesum files
GoneForGood(files) ==
  {j \in 1..Len(files) :
     /\ files[j].st = "absent"
     /\ ~(files[j].name.typ = "gauge"
            /\ files[j].name.mode \in {"liveall", "livesum"})}

\* C18: merge fails when a file that is gone is not a liveall or livesum
\* gauge file; otherwise it returns what it returns for the files that are
\* there.
C18_MissingFiles ==
  mcalled =>
    IF GoneForGood(mfiles) = {}
      THEN /\ mresult.err = "ok"
           /\ mresult.metrics =
                Merge(SelectSeq(mfiles, LAMBDA f : f.st = "ok"),
                      maccumulate).metrics
           /\ DOMAIN mresult.metrics =
                {k.metric : k \in AllStoredKeys(mfiles)}
      ELSE mresult.err = "IOError" /\ mresult.metrics = <<>>

C18_Witness ==
  /\ mcalled /\ mresult.err = "ok"
  /\ mfiles[1].st = "absent" /\ mfiles[1].name.mode = "livesum"
  /\ mfiles[2].st = "ok" /\ mfiles[2].name.typ = "counter"
  /\ DOMAIN mresult.metrics = {"counter_none"}
  /\ mresult.metrics["counter_none"].samples =
       {Sample("counter_none", {}, 1, NoneTs)}

\* =========================================================================
\* Claims about the directory
\* =========================================================================
RECURSIVE SumValues(_, _)
SumValues(d, names) ==
  IF names = <<>> THEN 0
  ELSE StoredValue(DirFile(d, Head(names))) + SumValues(d, Tail(names))

\* what the files of the directory hold for the counter, all together
DiskSum == SumValues(dir, DirNames)

ArchiveFile == DirFile(dir, FileName("counter", "none", 0))

\* C2: a scrape that returns reports a value between the increments made when
\* it took the lock and those made by now, and never less than the scrape
\* before it reported; except between the replacement of the archive file and
\* the removal of the dead worker's file, the files of the directory together
\* hold exactly the increments made, so archiving preserves the sum.
C2_ScrapeIsTotal ==
  /\ \A s \in Scrapers :
       (spc[s] = "returned" /\ sresult[s].st = "ok") =>
         /\ sstart[s] <= sresult[s].value
         /\ sresult[s].value <= totalInc
         /\ sfloor[s] <= sresult[s].value
  /\ apc # "unlinking" => DiskSum = totalInc

C2_Witness ==
  /\ spc[1] = "returned" /\ sresult[1].st = "ok"
  /\ sresult[1].value = 2 * MaxInc /\ sfloor[1] = MaxInc
  /\ StoredValue(ArchiveFile) = 2 * MaxInc
  /\ \A p \in Workers : wst[p] = "dead" /\ ~Exists(dir, WorkerFile(p))

\* a step that replaces an archive file or removes a file
DirMutated ==
  \E n \in DOMAIN dir :
    \/ n.pid = 0 /\ dir'[n] # dir[n]
    \/ dir[n].st # "absent" /\ dir'[n].st = "absent"

\* C3: the exclusive lock is never held together with a shared lock; while a
\* scraper holds the shared lock the files hold every increment exactly once;
\* archive files are replaced and files removed only by steps that begin and
\* end with the archiver holding the exclusive lock; a scraper's list of
\* files and what it has read change only while it holds the shared lock.
C3_LockDiscipline ==
  /\ [](/\ ~(exHeld # {} /\ shHeld # {})
        /\ Cardinality(exHeld) <= 1
        /\ (shHeld \cap Scrapers # {} => DiskSum = totalInc))
  /\ [][DirMutated => (Archiver \in exHeld /\ Archiver \in exHeld')]_vars
  /\ [][\A s \in Scrapers :
          (sfiles'[s] # sfiles[s] \/ sloaded'[s] # sloaded[s]) =>
            s \in shHeld]_vars

C3_Witness ==
  /\ spc[1] = "reading" /\ Len(sloaded[1]) = 1 /\ Len(sfiles[1]) = 1
  /\ shHeld = {1, Holder}
  /\ apc = "walked" /\ ablocking /\ pidsToClean # {}
  /\ Exists(dir, FileName("counter", "none", 0))

\* C4 as stated: the merge for the cache and the write of the cache happen
\* while the archiver holds the exclusive lock.
C4_CacheWrittenUnderLock ==
  apc \in {"refresh", "cache"} => Archiver \in exHeld

\* the locks that others hold
OthersExclusive(who) == exHeld \ {who} # {}

OthersShared(who) == shHeld \ {who} # {}

\* C5: a non-blocking attempt ends at once, with LockBusy exactly when a
\* conflicting lock is held: for cleanup_dead_processes any lock of another,
\* for collect the exclusive lock; otherwise the lock is taken, by collect
\* also while others hold the shared lock.
C5_NonBlocking ==
  /\ [](/\ (apc = "walked" /\ ~ablocking) => ENABLED ArchLock
        /\ \A s \in Scrapers :
             (spc[s] = "calling" /\ ~sblocking[s]) => ENABLED ScrLock(s))
  /\ [][(apc = "walked" /\ ~ablocking /\ apc' # "walked") =>
          IF OthersExclusive(Archiver) \/ OthersShared(Archiver)
            THEN apc' = "returned" /\ aresult' = "LockBusy"
                 /\ Archiver \notin exHeld'
            ELSE apc' = "locked" /\ Archiver \in exHeld']_vars
  /\ [][\A s \in Scrapers :
          (spc[s] = "calling" /\ ~sblocking[s] /\ spc'[s] # "calling") =>
            IF OthersExclusive(s)
              THEN spc'[s] = "returned" /\ sresult'[s].st = "LockBusy"
                   /\ s \notin shHeld'
              ELSE spc'[s] = "locked" /\ s \in shHeld']_vars

C5_Witness ==
  /\ spc[1] = "locked" /\ ~sblocking[1] /\ shHeld = {1, Holder}
  /\ apc = "returned" /\ aresult = "LockBusy"

\* nobody is inside a with advisory_lock block
NoSection ==
  /\ hpc = "out"
  /\ apc \notin {"locked", "writing", "unlinking"}
  /\ \A s \in Scrapers : spc[s] \notin {"locked", "reading"}

\* C6: a lock is held only by a process inside its with block, whether the
\* block was left normally or by an exception; so when every block has
\* ended, a non-blocking cleanup_dead_processes takes the exclusive lock.
C6_Released ==
  /\ [](/\ Archiver \in exHeld => apc \in {"locked", "writing", "unlinking"}
        /\ \A s \in Scrapers :
             s \in shHeld => spc[s] \in {"locked", "reading"}
        /\ Holder \in exHeld => hpc = "LOCK_EX"
        /\ Holder \in shHeld => hpc = "LOCK_SH")
  /\ [][(apc = "walked" /\ ~ablocking /\ apc' # "walked" /\ NoSection) =>
          (apc' = "locked" /\ exHeld' = {Archiver})]_vars

C6_Witness ==
  /\ apc = "locked" /\ ~ablocking /\ exHeld = {Archiver}
  /\ spc[1] = "returned" /\ sresult[1].st \in {"IOError", "TypeError"}
  /\ shHeld = {}

\* the value a worker's file of a gauge mode holds in a directory, 0 without
\* the file
LiveValue(d, mode, pid) ==
  IF d[FileName("gauge", mode, pid)] = NoFile THEN 0
  ELSE d[FileName("gauge", mode, pid)].recs[1].value

\* the samples of a metric in merged metrics, none when the metric is not there
SamplesOf(metrics, metric) ==
  IF metric \in DOMAIN metrics THEN metrics[metric].samples ELSE {}

\* the scrape that ends in this step
ScrapeEnds == spc[1] = "reading" /\ spc'[1] = "idle"

\* C17: mark_process_dead of a pid removes its gauge_liveall and gauge_livesum
\* files and changes no other file, also when those files are not there; and
\* every scrape that merges after it succeeds, has no liveall sample of the
\* pid and no share of the pid in the livesum value, and still has the pid's
\* gauge_all sample.
C17_MarkProcessDead ==
  [][/\ \A p \in Workers :
          (wst[p] # "dead" /\ wst'[p] = "dead") =>
            \A n \in DOMAIN dir :
              dir'[n] = IF n.pid = p /\ n.typ = "gauge"
                           /\ n.mode \in {"liveall", "livesum"}
                        THEN NoFile ELSE dir[n]
     /\ ScrapeEnds =>
          /\ mresult'.err = "ok"
          /\ \A p \in {q \in Workers : wst[q] = "dead"} :
               /\ \A x \in SamplesOf(mresult'.metrics, "gauge_liveall") :
                    <<"pid", ToString(p)>> \notin x.labels
               /\ Sample("gauge_all", {<<"pid", ToString(p)>>}, p, NoneTs)
                    \in SamplesOf(mresult'.metrics, "gauge_all")
          /\ LET share(p) == IF wst[p] = "dead" THEN 0
                             ELSE LiveValue(dir, "livesum", p)
             IN SamplesOf(mresult'.metrics, "gauge_livesum") =
                  IF share(1) + share(2) = 0 THEN {}
                  ELSE {Sample("gauge_livesum", {}, share(1) + share(2),
                               NoneTs)}
    ]_vars

\* worker 1 was marked dead after a scrape had listed its files: the scrape
\* skipped them and reports the liveall and livesum values of worker 2 only
C17_Witness ==
  /\ wst[1] = "dead" /\ wst[2] = "running" /\ mcalled /\ spc[1] = "idle"
  /\ \E j \in 1..Len(mfiles) :
       mfiles[j].st = "absent" /\ mfiles[j].name = FileName("gauge", "livesum", 1)
  /\ \E j \in 1..Len(mfiles) :
       mfiles[j].st = "absent" /\ mfiles[j].name = FileName("gauge", "liveall", 1)
  /\ dir[FileName("gauge", "all", 1)] # NoFile
  /\ dir[FileName("counter", "none", 1)] # NoFile
  /\ mresult.err = "ok"
  /\ SamplesOf(mresult.metrics, "gauge_liveall") =
       {Sample("gauge_liveall", {<<"pid", "2">>}, 1, NoneTs)}
  /\ SamplesOf(mresult.metrics, "gauge_livesum") =
       {Sample("gauge_livesum", {}, MaxValue, NoneTs)}

\* an archive run ends in this step
RunEnds == apc # "returned" /\ apc' = "returned"

\* C19: InMemoryCollector.collect returns the empty list at first, and what
\* it returns changes only in the step that completes an archive run, to the
\* metrics that run merged; worker writes, scrapes and archive runs that end
\* with LockBusy or an error of merge leave it as it was.
C19_CacheFrame ==
  /\ RetrieveMetrics(cache) = <<>>
  /\ [][/\ RetrieveMetrics(cache)' # RetrieveMetrics(cache) =>
             RunEnds /\ aresult' = "ok"
        /\ (RunEnds /\ aresult' = "ok") =>
             RetrieveMetrics(cache)' = amerged.metrics
        /\ (RunEnds /\ aresult' # "ok") =>
             RetrieveMetrics(cache)' = RetrieveMetrics(cache)
       ]_vars

\* after a run that stored a snapshot with c_total, a worker counted on and a
\* later run failed: the collector still returns the earlier snapshot, which
\* is behind the files
C19_Witness ==
  /\ apc = "returned" /\ aresult \notin {"none", "ok"}
  /\ RetrieveMetrics(cache) # <<>>
  /\ CounterValue(RetrieveMetrics(cache)) > 0
  /\ CounterValue(RetrieveMetrics(cache)) < totalInc

\* the file names of a pid that an archive run is to remove
Removable(d, pid) ==
  {n \in DOMAIN d :
     /\ n.pid = pid
     /\ \/ n.typ \in {"counter", "histogram"}
        \/ n.typ = "gauge"
           /\ n.mode \in {"min", "max", "latest", "liveall", "livesum"}}

\* the files of aggregated kinds as their workers wrote them, of the workers
\* that have none of them left in the directory
GoneFiles(d, origin) ==
  SelectSeq(origin,
            LAMBDA f : /\ f.st = "ok" /\ f.name.pid # 0
                       /\ f.name \in KindNames(AggregatedKinds, f.name.pid)
                       /\ d[f.name] = NoFile)

\* C20: when an archive run completes, no counter, histogram, gauge
\* min/max/latest, liveall or livesum file of a pid its walk found dead is in
\* the directory, and the archive files merge to what the files the workers
\* wrote and that are gone (those of every such pid among them) merge to; and
\* no step of the run changes a file of a pid the walk found alive.
C20_DeadArchived ==
  [][/\ (RunEnds /\ aresult' = "ok") =>
          /\ \A p \in deadAtWalk :
               \A n \in Removable(dir', p) : dir'[n] = NoFile
          /\ \A p \in deadAtWalk :
               \A i \in 1..Len(morigin) :
                 (morigin[i].name \in KindNames(AggregatedKinds, p)
                    /\ morigin[i].st = "ok") =>
                   \E j \in 1..Len(GoneFiles(dir', morigin)) :
                     GoneFiles(dir', morigin)[j] = morigin[i]
          /\ Merge(FilesOf(dir', Existing(dir', ArchiveNames)), TRUE) =
               Merge(GoneFiles(dir', morigin), TRUE)
     /\ \A n \in DOMAIN dir :
          (apc \notin {"idle", "returned"} /\ n.pid # 0
             /\ n.pid \notin deadAtWalk /\ dir'[n] # dir[n]) =>
            wst'[n.pid] # wst[n.pid]
    ]_vars

\* a run has completed after the walk found worker 1, which had a histogram
\* file, dead and worker 2 alive: of worker 1 only gauge_all_1.db is left,
\* histogram.db is there, and the files of worker 2 are as it wrote them
C20_Witness ==
  /\ apc = "returned" /\ aresult = "ok"
  /\ wst[1] = "dead" /\ wst[2] = "running"
  /\ \E i \in 1..Len(morigin) :
       morigin[i].name = FileName("histogram", "none", 1) /\ morigin[i].st = "ok"
  /\ \A n \in DOMAIN dir :
       n.pid = 1 => (dir[n] # NoFile <=> n = FileName("gauge", "all", 1))
  /\ dir[FileName("histogram", "none", 0)].st = "ok"
  /\ \A i \in 1..Len(morigin) :
       morigin[i].name.pid = 2 =>
         /\ dir[morigin[i].name].st = morigin[i].st
         /\ dir[morigin[i].name].recs = morigin[i].recs
  /\ dir[FileName("gauge", "liveall", 2)].st = "ok"
  /\ \E n \in KindNames(AggregatedKinds, 2) : dir[n].st = "ok"

\* the names of the files that are in a directory
Present(d) == SetToSeq({n \in DOMAIN d : d[n].st # "absent"})

\* an aggregate-only run ends in this step
AggregateEnds == apc = "locked" /\ apc' = "returned"

C22_DurationInCache ==
  (apc = "returned" /\ aresult = "ok") =>
    \E m \in DOMAIN RetrieveMetrics(cache) :
      \E x \in RetrieveMetrics(cache)[m].samples :
        x.name = "archive_duration_seconds"

\* what a call of mmap_key is about: metric name, sample name and the label
\* map
Triple(call) ==
  [metric |-> call.metric_name, name |-> call.name,
   labels |-> {<<call.labelnames[i], call.labelvalues[i]>> :
                 i \in 1..Len(call.labelnames)}]

\* C23: two calls of mmap_key return the same key exactly when metric name,
\* sample name and label map are the same, in whichever order the labels are
\* given, and json.loads of a key gives back metric name, sample name and
\* label map.
C23_KeyIdentity ==
  kkeys # <<>> =>
    /\ kkeys[1] = kkeys[2] <=> Triple(kargs[1]) = Triple(kargs[2])
    /\ \A i \in 1..2 : JsonLoads(kkeys[i]) = Triple(kargs[i])

\* the labels a=x, b=y given in both orders make one key
C23_Witness ==
  /\ kkeys # <<>>
  /\ kargs[1].labelnames = <<"a", "b">> /\ kargs[1].labelvalues = <<"x", "y">>
  /\ kargs[2].labelnames = <<"b", "a">> /\ kargs[2].labelvalues = <<"y", "x">>
  /\ kargs[1].metric_name = kargs[2].metric_name
  /\ kargs[1].name = kargs[2].name
  /\ kkeys[1] = kkeys[2]
  /\ JsonLoads(kkeys[2]).labels = {<<"a", "x">>, <<"b", "y">>}

\* the names of the files of aggregated kinds, of workers and archives, that
\* are in a directory
AggregatedPresent(d) ==
  SetToSeq({n \in DOMAIN d :
              /\ n \in KindNames(AggregatedKinds, n.pid)
              /\ d[n].st # "absent"})

\* the files of aggregated kinds as the workers wrote them
AggregatedOrigin ==
  SelectSeq(morigin, LAMBDA f : /\ f.st = "ok"
                                /\ f.name \in KindNames(AggregatedKinds, f.name.pid))

\* C24: whenever the archiver is not between writing the archives and
\* removing a worker's files, merging the archive files and the worker files
\* of aggregated kinds that are in the directory (accumulate on) gives what
\* merging the files as the workers wrote them gives, however many times the
\* archives were rewritten.
C24_ArchiveTransparent ==
  apc # "unlinking" =>
    Merge(FilesOf(dir, AggregatedPresent(dir)), TRUE) =
      Merge(AggregatedOrigin, TRUE)

\* both workers had a histogram with different values, both were archived,
\* the second into the archive of the first: the archive merges to the
\* running sums of the two together
C24_Witness ==
  /\ apc = "returned" /\ aresult = "ok"
  /\ wst = [p \in Workers |-> "dead"]
  /\ AggregatedPresent(dir) = <<FileName("histogram", "none", 0)>>
  /\ Len(AggregatedOrigin) = 2
  /\ AggregatedOrigin[1].recs # AggregatedOrigin[2].recs
  /\ Sample("h_bucket", {<<"le", "+Inf">>}, 3 * (1 + MaxValue), NoneTs)
       \in SamplesOf(Merge(FilesOf(dir, AggregatedPresent(dir)), TRUE).metrics, "h")

\* C25: when an archive run completes during which no worker died, the cache
\* holds what a scrape of the directory would merge: every sample stored in a
\* file of the directory is in it.
C25_CacheIsDisk ==
  [][(RunEnds /\ aresult' = "ok"
        /\ \A p \in Workers : wst[p] = "dead" => p \in deadAtWalk) =>
       RetrieveMetrics(cache)' = Merge(FilesOf(dir', Present(dir')), TRUE).metrics
    ]_vars

\* C26: a reader that opens the file read-only and reads all values, at any
\* point of the writer's progress, does not fail and gets only the records
\* appended so far.
C26_ReaderNeverFails ==
  (rpc = "done" /\ ~corrupted.set) =>
    /\ readResult.err = "ok"
    /\ ReadKeys = appended

\* C27: an archive run given a root works inside the root: it changes no
\* file of another directory, and when it leaves the locked section no
\* counter, histogram, gauge min/max/latest, liveall or livesum file of a pid
\* its walk found dead is left in the root.
C27_InsideRoot ==
  [][/\ apc \notin {"idle", "returned"} => dir' = dir
     /\ (apc = "locked" /\ apc' = "refresh") =>
          \A p \in deadAtWalk : \A n \in Removable(rdir', p) : rdir'[n] = NoFile
    ]_vars

\* C28: merge of the same files listed in the opposite order, with the same
\* accumulate flag, emits the same metrics with the same samples.
C28_OrderIndependent ==
  mcalled => Merge(Reverse(mfiles), maccumulate) = mresult

\* the records in a file of size bytes up to the header's used, as a scan
\* of the file finds them: key, value, timestamp and the offset of the value
RecsOf(data, size) ==
  IF size = 0 \/ UnpackInteger(data, 0) = 0 THEN <<>>
  ELSE ReadAllValuesOf(data, size, UnpackInteger(data, 0)).recs

FileRecs == RecsOf(fileData, fileSize)

\* the step in which write_value stores its pair (line 117)
WriteStored == wpc = "pack" /\ wpc' = "ready"

\* C29: as long as nothing but the writer touches the file, every step
\* leaves each key in at most one record and keeps every record where it
\* is with its key; only the store of write_value changes a value or a
\* timestamp, and it changes the pair of the key written to what was
\* written (the timestamp as the file encodes it), leaving used, the header
\* and every other record as they were.
C29_AppendOnly ==
  [][ ~corrupted'.set =>
        \A old \in {FileRecs}, new \in {RecsOf(fileData', fileSize')} :
        /\ \A i, j \in 1..Len(new) : new[i].key = new[j].key => i = j
        /\ Len(new) >= Len(old)
        /\ \A i \in 1..Len(old) :
             /\ new[i].key = old[i].key
             /\ new[i].pos = old[i].pos
             /\ (~WriteStored \/ old[i].key # pending.key) => new[i] = old[i]
        /\ WriteStored =>
             /\ used' = used /\ HeaderUsed' = HeaderUsed
             /\ Len(new) = Len(old)
             /\ \E i \in 1..Len(old) :
                  /\ old[i].key = pending.key
                  /\ new[i].value = pending.value
                  /\ new[i].timestamp =
                       FromTimestampFloat(ToTimestampFloat(pending.timestamp))
    ]_vars

\* a key that was in the file already has been written again with another
\* value, next to the record of another key
C29_Witness ==
  /\ rewrote /\ wpc = "ready" /\ ~corrupted.set
  /\ Len(FileRecs) = 2
  /\ \E i \in 1..2 :
       /\ FileRecs[i].key = <<97>> /\ FileRecs[i].value = 2
       /\ FileRecs[3 - i].key = <<97, 98, 99, 100>>
       /\ FileRecs[3 - i].value = 1

\* sizes the initial size reaches by doubling
DoubledSizes == {INITIAL_MMAP_SIZE * (2 ^ n) : n \in 0..MaxDoublings}

\* C30: the file, once it has a size, has the initial size doubled some
\* number of times, holds the used bytes of its header, and never shrinks;
\* the writer's capacity is the file's size and at least its used; while
\* the record to append does not fit the writer only doubles the capacity,
\* and no byte of the file changes before the record fits.
C30_CapacityDoubles ==
  [][ /\ fileSize' >= fileSize
      /\ fileSize' # 0 => fileSize' \in DoubledSizes /\ fileSize' >= HeaderUsed'
      /\ wpc' \in {"ready", "init", "pack", "unpack"} =>
           capacity' = fileSize' /\ capacity' >= used'
      /\ (wpc = "init" /\ used + Len(InitRecord(pending.key)) > capacity) =>
           /\ fileData' = fileData /\ used' = used /\ wpc' = "init"
           /\ capacity' \in {capacity, 2 * capacity}
      /\ (wpc = "init" /\ fileData' # fileData) =>
           used + Len(InitRecord(pending.key)) <= capacity
    ]_vars

\* a record that needed the initial size doubled twice has been appended
C30_Witness ==
  /\ wpc = "ready" /\ appended = << <<97, 98, 99, 100>> >>
  /\ HeaderUsed = 8 + Len(InitRecord(<<97, 98, 99, 100>>))
  /\ HeaderUsed > 2 * INITIAL_MMAP_SIZE
  /\ fileSize = 4 * INITIAL_MMAP_SIZE /\ capacity = fileSize

\* C31: a blocking collect that asks for the shared lock gets it and later
\* returns with the lock given back; while it waits, somebody holds the
\* exclusive lock; the archiver's exclusive lock is always given back, and
\* is not held once cleanup_dead_processes has returned or failed.
C31_CollectReturns ==
  /\ \A s \in Scrapers :
       /\ (spc[s] = "calling" /\ sblocking[s]) ~> (s \in shHeld)
       /\ (s \in shHeld) ~> (spc[s] = "returned" /\ s \notin shHeld)
       /\ []((spc[s] = "calling" /\ sblocking[s] /\ ~ENABLED ScrLock(s))
               => exHeld # {})
  /\ (Archiver \in exHeld) ~> (Archiver \notin exHeld)
  /\ [](apc \in {"returned", "idle"} => Archiver \notin exHeld)

\* a blocking collect waits for the archiver, which is inside its section
C31_Witness ==
  /\ spc[1] = "calling" /\ sblocking[1] /\ ~ENABLED ScrLock(1)
  /\ exHeld = {Archiver} /\ apc = "writing"

====
